---- MODULE Spec2Model ----
(***************************************************************************)
(* A model of parasync: the bounded-concurrency runners (runParallel,      *)
(* handleParallel, batchParallel and their void variants), the TTL cache   *)
(* MemCache and the aggregate cache MemAggregateCache built on it.         *)
(*                                                                         *)
(* JavaScript runs one job at a time: the synchronous part of a function   *)
(* up to its next await is one action; a promise settling, a then-callback *)
(* running and an await resuming are separate actions that interleave.     *)
(***************************************************************************)
EXTENDS Integers, Sequences, FiniteSets, TLC

(***************************************************************************)
(* Bounds of the model.                                                    *)
(***************************************************************************)
MaxItems == 3
MaxConcurrency == 3
MaxBatchSize == 2
MaxPastTTL == 1
MaxLoads == 2
MaxCalls == 2
MaxKeysLen == 2
MaxControlCalls == 3

VARIABLES
  \* ---- the runners (parallel/handle.ts, parallel/batch.ts, runParallel) ----
  variant,       \* which of the six functions was called
  concurrency,   \* its concurrency argument
  batchSize,     \* batchParallel's batchSize argument (1 for the others)
  items,         \* the items (or callbacks) argument
  handlerGiven,  \* whether the handler argument is defined
  units,         \* what the admission loop iterates: items, callbacks or batches
  pc,            \* the call's position: entry, loop, race, all, done
  idx,           \* index of the next unit the for-loop takes
  hstate,        \* per unit: state of the promise handler(item) returned
  pstate,        \* per unit: state of the derived promise handler(item).then(..)
  queue,         \* the Set queue (unit indices of the derived promises)
  result,        \* the array result (unit indices of the derived promises)
  awaiting,      \* the promises Promise.race / Promise.all was called on
  awaitRes,      \* state of the promise being awaited
  outcome,       \* how the call's own promise settled
  completed,     \* history: the units in the order their operations completed
  voidRun,       \* the void counterpart of the call, run beside it
  \* ---- MemCache (also the item cache kv of MemAggregateCache) ----
  now,             \* Date.now()
  kv,              \* the Map kv: key -> MemCacheEntry [value, expiresAt]
  expiredDeleteAt, \* the field expiredDeleteAt
  ttl,             \* the ttl the cache was constructed with
  defaultLoad,     \* whether the cache was constructed with a loader (this.load)
  proms,           \* every promise a loader returned, by identity (its index)
  returned,        \* what the last call of a cache method returned or threw; for
                   \* a promise, also whether the call invoked the loader
  \* ---- MemAggregateCache ----
  loadCalls,       \* every invocation of the batch loader this.load
  calls,           \* every call of getMany, with its local variables
  exactLoad,       \* whether the batch loader given to the constructor answers
                   \* with the items of exactly the keys asked, in their order
  cmkks,           \* the Map of the cache cmkks: complex key -> MemCacheEntry
  cmkksExpiredDeleteAt, \* the field expiredDeleteAt of the cache cmkks
  keyLoads,        \* every promise a keys loader returned, by identity
  complexCalls,    \* every call of getManyByComplexKey
  \* ---- one ControlPromise ----
  cpResolved,      \* its field _resolved
  cpRejected,      \* its field _rejected
  cpPromise,       \* the state of the promise itself, as its awaiters see it
  cpCalls,         \* every call of resolve and reject made on it, in order
  cpThenable,      \* the state of the thenable callers may pass to resolve
  \* ---- one generator batchGenerator(batchSize, items) ----
  generatorPc,     \* where it is suspended: "start", "yield", "last", "done"
  consumed,        \* how many items its for-loop has taken from the iterable
  generatorBatch,  \* its local variable batch
  yielded          \* every batch it has yielded, in order

runnerVars == <<variant, concurrency, batchSize, items, handlerGiven, units, pc,
                idx, hstate, pstate, queue, result, awaiting, awaitRes, outcome,
                completed, voidRun>>

cacheVars == <<now, kv, expiredDeleteAt, ttl, defaultLoad, proms, returned>>

complexVars == <<cmkks, cmkksExpiredDeleteAt, keyLoads, complexCalls>>

aggVars == <<loadCalls, calls, exactLoad, complexVars>>

controlVars == <<cpResolved, cpRejected, cpPromise, cpCalls, cpThenable>>

generatorVars == <<generatorPc, consumed, generatorBatch, yielded>>

vars == <<runnerVars, cacheVars, aggVars, controlVars, generatorVars>>

(***************************************************************************)
(* Small helpers.                                                          *)
(***************************************************************************)
Min(S) == CHOOSE x \in S : \A y \in S : x <= y

Range(s) == {s[i] : i \in 1..Len(s)}

\* new Map()
EmptyMap == [k \in {} |-> 0]

RECURSIVE Flat(_)
\* Array.prototype.flat on an array of arrays.
Flat(ss) == IF ss = <<>> THEN <<>> ELSE Head(ss) \o Flat(Tail(ss))

(***************************************************************************)
(* The runners.                                                            *)
(***************************************************************************)
Variants == {"runParallel", "runParallelVoid", "handleParallel",
             "handleParallelVoid", "batchParallel", "batchParallelVoid"}

IsVoid(v) == v \in {"runParallelVoid", "handleParallelVoid", "batchParallelVoid"}

IsBatch(v) == v \in {"batchParallel", "batchParallelVoid"}

\* runParallel takes callbacks and has no handler parameter.
NeedsHandler(v) == v \notin {"runParallel", "runParallelVoid"}

Pending == <<"pending">>
Fulfilled == <<"ok">>
Rejected(e) == <<"err", e>>

\* new Error('Handler is required')
HandlerRequired == <<"Handler is required", 0>>

\* The error unit i throws or rejects with: each unit has an error of its own.
UnitError(i) == <<"unit error", i>>

\* What the handler resolves with for one item, as in the tests (item * 2).
ItemResult(x) == x * 2

\* What the unit's operation resolves with: a value for an item or a callback,
\* an array of values for a batch.
UnitResult(v, u) ==
  IF IsBatch(v) THEN [j \in 1..Len(u) |-> ItemResult(u[j])] ELSE ItemResult(u)

RECURSIVE BatchLoop(_, _, _, _)
\* The for-loop of batchParallel over the remaining items `rest`, with the
\* current `batch` and the `batches` pushed so far, and the push after it.
BatchLoop(size, rest, batch, batches) ==
  IF rest = <<>>
    THEN IF Len(batch) > 0 THEN Append(batches, batch) ELSE batches
    ELSE LET b == Append(batch, Head(rest))
         IN IF Len(b) < size
              THEN BatchLoop(size, Tail(rest), b, batches)
              ELSE BatchLoop(size, Tail(rest), <<>>, Append(batches, b))

Batches(size, its) == BatchLoop(size, its, <<>>, <<>>)

\* if (queue.size >= concurrency)
MustWaitOffByOne(size, c) == size > c

\* As MustWait, did the loop wait after every start.
MustWaitAfterEachStart(size, c) == size >= 1

\* As MustWait, did the loop wait one start early.
MustWaitEarly(size, c) == size + 1 >= c

\* As MustWait, did a concurrency of 0 mean no limit.
MustWaitUnlessZero(size, c) == c > 0 /\ size >= c

MustWait(size, c) == size >= c

\* result.push(promise)
ResultPushFront(res, p) == <<p>> \o res

ResultPush(res, p) == Append(res, p)

\* Promise.race(S) at the moment of the call: a promise already rejected wins
\* (the first in iteration order); nothing in queue is ever fulfilled.
RaceStart(S, ps) ==
  LET rej == {i \in S : ps[i] = "rejected"}
  IN IF rej # {} THEN Rejected(UnitError(Min(rej))) ELSE Pending

\* Promise.all(S) at the moment of the call.
AllStart(S, ps) ==
  LET rej == {i \in S : ps[i] = "rejected"}
  IN IF rej # {} THEN Rejected(UnitError(Min(rej)))
     ELSE IF \A i \in S : ps[i] = "fulfilled" THEN Fulfilled
     ELSE Pending

\* As OnFulfil, did a fulfilment never settle the awaited promise.
OnFulfilLost(i, ps) == awaitRes

\* The awaited promise after derived promise i fulfilled.
OnFulfil(i, ps) ==
  IF awaitRes # Pending \/ i \notin awaiting THEN awaitRes
  ELSE IF pc = "race" THEN Fulfilled
  ELSE IF pc = "all" /\ \A j \in awaiting : ps[j] = "fulfilled" THEN Fulfilled
  ELSE awaitRes

\* The awaited promise after derived promise i rejected.
OnReject(i) ==
  IF awaitRes # Pending \/ i \notin awaiting \/ pc \notin {"race", "all"}
    THEN awaitRes
    ELSE Rejected(UnitError(i))

\* What Promise.all(result) resolves with: the values in the order of result.
AllValues(v, res) == [k \in 1..Len(res) |-> UnitResult(v, units[res[k]])]

\* The value the call returns once everything awaited is fulfilled.
ReturnValue(v, res) ==
  IF IsVoid(v) THEN <<"ok", <<>>>>
  ELSE IF IsBatch(v) THEN <<"ok", Flat(AllValues(v, res))>>
  ELSE <<"ok", AllValues(v, res)>>

\* The concurrency arguments: a negative one, 0 and the positive ones.
Concurrencies == -1..MaxConcurrency

\* The void counterpart of the call, before it is called.
VoidInit ==
  [pc |-> "entry", idx |-> 1, pstate |-> <<>>, queue |-> {}, awaiting |-> {},
   awaitRes |-> Pending, outcome |-> <<"none">>]

InitRunner ==
  /\ variant \in Variants
  /\ concurrency \in Concurrencies
  /\ batchSize \in (IF IsBatch(variant) THEN 0..MaxBatchSize ELSE {1})
  /\ \E n \in 0..MaxItems : items = [i \in 1..n |-> i]
  /\ handlerGiven \in (IF NeedsHandler(variant) THEN BOOLEAN ELSE {TRUE})
  /\ units = <<>>
  /\ pc = "entry"
  /\ idx = 1
  /\ hstate = <<>>
  /\ pstate = <<>>
  /\ queue = {}
  /\ result = <<>>
  /\ awaiting = {}
  /\ awaitRes = Pending
  /\ outcome = <<"none">>
  /\ completed = <<>>
  /\ voidRun = VoidInit
  \* no cache
  /\ now = 0
  /\ kv = EmptyMap
  /\ expiredDeleteAt = 0
  /\ ttl = 1
  /\ defaultLoad = FALSE
  /\ proms = <<>>
  /\ returned = <<"none">>
  /\ loadCalls = <<>>
  /\ calls = <<>>
  /\ exactLoad = FALSE
  /\ cmkks = EmptyMap
  /\ cmkksExpiredDeleteAt = 0
  /\ keyLoads = <<>>
  /\ complexCalls = <<>>
  /\ cpResolved = FALSE
  /\ cpRejected = FALSE
  /\ cpPromise = Pending
  /\ cpCalls = <<>>
  /\ cpThenable = "pending"
  \* no generator
  /\ generatorPc = "done"
  /\ consumed = 0
  /\ generatorBatch = <<>>
  /\ yielded = <<>>

\* As HandlerMissing, were the handler never checked.
HandlerMissingUnchecked(v, given) == FALSE

\* if (!handler)
HandlerMissing(v, given) == NeedsHandler(v) /\ ~given

(***************************************************************************)
(* The void counterpart of the call (runParallelVoid, handleParallelVoid,  *)
(* batchParallelVoid), run beside it on the same units, with the same      *)
(* concurrency and the same completions of the units' operations.  voidRun *)
(* holds its position and its locals; each step of the call below is also  *)
(* the same step of the counterpart, where the counterpart can take it.    *)
(***************************************************************************)
VoidOf(v) ==
  CASE v \in {"runParallel", "runParallelVoid"} -> "runParallelVoid"
    [] v \in {"handleParallel", "handleParallelVoid"} -> "handleParallelVoid"
    [] OTHER -> "batchParallelVoid"

\* As VoidAwaited, had the void variant returned without awaiting its queue.
VoidAwaitedNothing(q) == {}

\* await Promise.all(queue): what the void variant awaits after its loop.
VoidAwaited(q) == q

\* The counterpart up to its for-loop.
VoidEntry(w) ==
  IF w.pc # "entry" THEN w
  ELSE LET us == IF IsBatch(variant) THEN Batches(batchSize, items) ELSE items
       IN IF HandlerMissing(VoidOf(variant), handlerGiven)
            THEN [w EXCEPT !.pc = "done", !.outcome = Rejected(HandlerRequired),
                           !.pstate = [i \in 1..Len(us) |-> "none"]]
            ELSE [w EXCEPT !.pc = "loop",
                           !.pstate = [i \in 1..Len(us) |-> "none"]]

\* One iteration of the counterpart's for-loop; thrown tells whether the
\* handler threw instead of returning a promise.
VoidStartUnit(w, thrown) ==
  IF ~(w.pc = "loop" /\ w.idx <= Len(units)) THEN w
  ELSE IF thrown
    THEN [w EXCEPT !.idx = w.idx + 1, !.pc = "done",
                   !.outcome = Rejected(UnitError(w.idx))]
    ELSE LET ps == [w.pstate EXCEPT ![w.idx] = "pending"]
             q == w.queue \cup {w.idx}
         IN IF MustWait(Cardinality(q), concurrency)
              THEN [w EXCEPT !.idx = w.idx + 1, !.pstate = ps, !.queue = q,
                             !.pc = "race", !.awaiting = q,
                             !.awaitRes = RaceStart(q, ps)]
              ELSE [w EXCEPT !.idx = w.idx + 1, !.pstate = ps, !.queue = q]

\* The counterpart's then-callback: queue.delete(promise).
VoidThenFulfil(w, i) ==
  IF ~(w.pc \notin {"entry", "loop"} /\ i \in DOMAIN w.pstate
       /\ w.pstate[i] = "pending") THEN w
  ELSE LET ps == [w.pstate EXCEPT ![i] = "fulfilled"]
           res == IF w.awaitRes # Pending \/ i \notin w.awaiting THEN w.awaitRes
                  ELSE IF w.pc = "race" THEN Fulfilled
                  ELSE IF w.pc = "all" /\ \A j \in w.awaiting : ps[j] = "fulfilled"
                    THEN Fulfilled
                  ELSE w.awaitRes
       IN [w EXCEPT !.queue = w.queue \ {i}, !.pstate = ps, !.awaitRes = res]

\* A rejection passes the counterpart's then-callback by.
VoidThenReject(w, i) ==
  IF ~(w.pc \notin {"entry", "loop"} /\ i \in DOMAIN w.pstate
       /\ w.pstate[i] = "pending") THEN w
  ELSE LET res == IF w.awaitRes # Pending \/ i \notin w.awaiting
                       \/ w.pc \notin {"race", "all"}
                    THEN w.awaitRes
                    ELSE Rejected(UnitError(i))
       IN [w EXCEPT !.pstate = [w.pstate EXCEPT ![i] = "rejected"],
                    !.awaitRes = res]

\* The counterpart's await Promise.race(queue) resumes.
VoidResume(w) ==
  IF ~(w.pc = "race" /\ w.awaitRes # Pending) THEN w
  ELSE IF w.awaitRes = Fulfilled
    THEN [w EXCEPT !.pc = "loop", !.awaiting = {}, !.awaitRes = Pending]
    ELSE [w EXCEPT !.pc = "done", !.outcome = w.awaitRes, !.awaiting = {},
                   !.awaitRes = Pending]

\* After the counterpart's loop: await Promise.all(queue).
VoidFinish(w) ==
  IF ~(w.pc = "loop" /\ w.idx > Len(units)) THEN w
  ELSE [w EXCEPT !.pc = "all", !.awaiting = VoidAwaited(w.queue),
                 !.awaitRes = AllStart(VoidAwaited(w.queue), w.pstate)]

\* The counterpart's Promise.all settles and with it the counterpart.
VoidReturn(w) ==
  IF ~(w.pc = "all" /\ w.awaitRes # Pending) THEN w
  ELSE [w EXCEPT !.pc = "done",
                 !.outcome = IF w.awaitRes = Fulfilled THEN <<"ok", <<>>>>
                             ELSE w.awaitRes,
                 !.awaiting = {}, !.awaitRes = Pending]

\* The call up to its for-loop: batchParallel forms the batches, handleParallel
\* checks the handler.
Entry ==
  /\ pc = "entry"
  /\ units' = IF IsBatch(variant) THEN Batches(batchSize, items) ELSE items
  /\ hstate' = [i \in 1..Len(units') |-> "idle"]
  /\ pstate' = [i \in 1..Len(units') |-> "none"]
  /\ IF HandlerMissing(variant, handlerGiven)
       THEN pc' = "done" /\ outcome' = Rejected(HandlerRequired)
       ELSE pc' = "loop" /\ outcome' = outcome
  /\ voidRun' = VoidEntry(voidRun)
  /\ UNCHANGED <<variant, concurrency, batchSize, items, handlerGiven, idx,
                 queue, result, awaiting, awaitRes, completed,
                 cacheVars, aggVars, controlVars, generatorVars>>

\* One iteration of the for-loop, to its await or to the next iteration.
StartUnit ==
  /\ pc = "loop"
  /\ idx <= Len(units)
  /\ idx' = idx + 1
  /\ \/ \* handler(item) throws: the async function rejects with the error
        /\ hstate' = [hstate EXCEPT ![idx] = "thrown"]
        /\ pc' = "done"
        /\ outcome' = Rejected(UnitError(idx))
        /\ UNCHANGED <<pstate, queue, result, awaiting, awaitRes>>
     \/ \* handler(item) returns a promise
        /\ hstate' = [hstate EXCEPT ![idx] = "running"]
        /\ pstate' = [pstate EXCEPT ![idx] = "pending"]
        /\ queue' = queue \cup {idx}
        /\ result' = IF IsVoid(variant) THEN result ELSE ResultPush(result, idx)
        /\ IF MustWait(Cardinality(queue'), concurrency)
             THEN /\ pc' = "race"
                  /\ awaiting' = queue'
                  /\ awaitRes' = RaceStart(queue', pstate')
             ELSE /\ pc' = "loop"
                  /\ UNCHANGED <<awaiting, awaitRes>>
        /\ UNCHANGED outcome
  /\ voidRun' = VoidStartUnit(voidRun, hstate'[idx] = "thrown")
  /\ UNCHANGED <<variant, concurrency, batchSize, items, handlerGiven, units,
                 completed,
                 cacheVars, aggVars, controlVars, generatorVars>>

\* As Settle, were the running operations cancelled when the call has failed.
SettleUnlessFailed(i) ==
  /\ pc \notin {"entry", "loop", "done"}
  /\ hstate[i] = "running"
  /\ \/ hstate' = [hstate EXCEPT ![i] = "fulfilled"]
     \/ hstate' = [hstate EXCEPT ![i] = "rejected"]
  /\ completed' = Append(completed, i)
  /\ voidRun' = voidRun
  /\ UNCHANGED <<variant, concurrency, batchSize, items, handlerGiven, units,
                 pc, idx, pstate, queue, result, awaiting, awaitRes, outcome,
                 cacheVars, aggVars, controlVars, generatorVars>>

\* The unit's operation completes: the promise handler(item) returned settles.
\* No other job runs while the call is in its synchronous loop.
Settle(i) ==
  /\ pc \notin {"entry", "loop"}
  /\ hstate[i] = "running"
  /\ \/ hstate' = [hstate EXCEPT ![i] = "fulfilled"]
     \/ hstate' = [hstate EXCEPT ![i] = "rejected"]
  /\ completed' = Append(completed, i)
  /\ voidRun' = voidRun
  /\ UNCHANGED <<variant, concurrency, batchSize, items, handlerGiven, units,
                 pc, idx, pstate, queue, result, awaiting, awaitRes, outcome,
                 cacheVars, aggVars, controlVars, generatorVars>>

\* The then-callback: queue.delete(promise); return result.
ThenFulfil(i) ==
  /\ pc \notin {"entry", "loop"}
  /\ hstate[i] = "fulfilled"
  /\ pstate[i] = "pending"
  /\ queue' = queue \ {i}
  /\ pstate' = [pstate EXCEPT ![i] = "fulfilled"]
  /\ awaitRes' = OnFulfil(i, pstate')
  /\ voidRun' = VoidThenFulfil(voidRun, i)
  /\ UNCHANGED <<variant, concurrency, batchSize, items, handlerGiven, units,
                 pc, idx, hstate, result, awaiting, outcome, completed,
                 cacheVars, aggVars, controlVars, generatorVars>>

\* As ThenReject, had the callback been registered for rejections too.
ThenRejectHandled(i) ==
  /\ pc \notin {"entry", "loop"}
  /\ hstate[i] = "rejected"
  /\ pstate[i] = "pending"
  /\ queue' = queue \ {i}
  /\ pstate' = [pstate EXCEPT ![i] = "fulfilled"]
  /\ awaitRes' = OnFulfil(i, pstate')
  /\ voidRun' = VoidThenFulfil(voidRun, i)
  /\ UNCHANGED <<variant, concurrency, batchSize, items, handlerGiven, units,
                 pc, idx, hstate, result, awaiting, outcome, completed,
                 cacheVars, aggVars, controlVars, generatorVars>>

\* A rejection passes the then-callback by: the derived promise rejects and
\* stays in queue.
ThenReject(i) ==
  /\ pc \notin {"entry", "loop"}
  /\ hstate[i] = "rejected"
  /\ pstate[i] = "pending"
  /\ pstate' = [pstate EXCEPT ![i] = "rejected"]
  /\ awaitRes' = OnReject(i)
  /\ voidRun' = VoidThenReject(voidRun, i)
  /\ UNCHANGED <<variant, concurrency, batchSize, items, handlerGiven, units,
                 pc, idx, hstate, queue, result, awaiting, outcome, completed,
                 cacheVars, aggVars, controlVars, generatorVars>>

\* await Promise.race(queue) resumes.
Resume ==
  /\ pc = "race"
  /\ awaitRes # Pending
  /\ IF awaitRes = Fulfilled
       THEN pc' = "loop" /\ outcome' = outcome
       ELSE pc' = "done" /\ outcome' = awaitRes
  /\ awaiting' = {}
  /\ awaitRes' = Pending
  /\ voidRun' = VoidResume(voidRun)
  /\ UNCHANGED <<variant, concurrency, batchSize, items, handlerGiven, units,
                 idx, hstate, pstate, queue, result, completed,
                 cacheVars, aggVars, controlVars, generatorVars>>

\* After the loop: Promise.all(result), or Promise.all(queue) in a void variant.
Finish ==
  /\ pc = "loop"
  /\ idx > Len(units)
  /\ pc' = "all"
  /\ awaiting' = IF IsVoid(variant) THEN queue ELSE Range(result)
  /\ awaitRes' = AllStart(awaiting', pstate)
  /\ voidRun' = VoidFinish(voidRun)
  /\ UNCHANGED <<variant, concurrency, batchSize, items, handlerGiven, units,
                 idx, hstate, pstate, queue, result, outcome, completed,
                 cacheVars, aggVars, controlVars, generatorVars>>

\* The final Promise.all settles and with it the call.
Return ==
  /\ pc = "all"
  /\ awaitRes # Pending
  /\ pc' = "done"
  /\ outcome' = IF awaitRes = Fulfilled THEN ReturnValue(variant, result)
                ELSE awaitRes
  /\ awaiting' = {}
  /\ awaitRes' = Pending
  /\ voidRun' = VoidReturn(voidRun)
  /\ UNCHANGED <<variant, concurrency, batchSize, items, handlerGiven, units,
                 idx, hstate, pstate, queue, result, completed,
                 cacheVars, aggVars, controlVars, generatorVars>>

NextRunner ==
  \/ Entry
  \/ StartUnit
  \/ \E i \in 1..Len(units) : Settle(i)
  \/ \E i \in 1..Len(units) : ThenFulfil(i)
  \/ \E i \in 1..Len(units) : ThenReject(i)
  \/ Resume
  \/ Finish
  \/ Return


(***************************************************************************)
(* MemCache.                                                               *)
(***************************************************************************)
Keys == {1, 2}

\* The ttl values a cache is constructed with, in clock ticks.
TTLs == {1, 2}

\* What a caller passes to get as loader: a function "A", or nothing. "D" is
\* the loader given to the constructor.
CallLoaders == {"A", "none"}

\* new Error('Loader is required but not provided')
LoaderRequired == <<"Loader is required but not provided", 0>>

\* What loader l resolves with for key k, and the error it rejects with.
LoaderValue(l, k) == <<"val", l, k>>

LoaderError(l, k) == <<"err", l, k>>

\* As isValid, were an entry valid only from the tick after its creation.
isValidLate(e, t) == e.expiresAt - ttl < t /\ e.expiresAt > t

\* As isValid, were no entry ever valid.
isValidNever(e, t) == FALSE

\* MemCacheEntry.isValid at time t.
isValid(e, t) == e.expiresAt > t

\* As MemCacheEntry, did the entry live one tick longer than the ttl.
MemCacheEntryLonger(value, t) == [value |-> value, expiresAt |-> t + ttl + 1]

\* new MemCacheEntry(ttl, value) at time t.
MemCacheEntry(value, t) == [value |-> value, expiresAt |-> t + ttl]

\* As deleteExpired, did the sweep evict an entry one tick before it expires.
deleteExpiredSoon(map, t) ==
  [k \in {x \in DOMAIN map : isValid(map[x], t + 1)} |-> map[k]]

\* As deleteExpired, did the sweep also evict the entries of rejected loads.
deleteExpiredAndFailed(map, t) ==
  [k \in {x \in DOMAIN map : isValid(map[x], t)
                              /\ proms[map[x].value].state # "rejected"} |-> map[k]]

\* MemCache.deleteExpired at time t.
deleteExpired(map, t) ==
  [k \in {x \in DOMAIN map : isValid(map[x], t)} |-> map[k]]

\* As deleteExpiredIfNeed, did it sweep whatever the watermark.
deleteExpiredAlways(map, eda, t) ==
  [kv |-> deleteExpired(map, t), expiredDeleteAt |-> t + ttl]

\* MemCache.deleteExpiredIfNeed at time t: the map and the watermark after it.
deleteExpiredIfNeed(map, eda, t) ==
  IF eda > t
    THEN [kv |-> map, expiredDeleteAt |-> eda]
    ELSE [kv |-> deleteExpired(map, t), expiredDeleteAt |-> t + ttl]

\* As NeedsLoad, without the look-up: every get loads.
NeedsLoadAlways(map, k, t) == TRUE

\* As NeedsLoad, were a valid entry reused only while its load is pending.
NeedsLoadUnlessPending(map, k, t) ==
  ~(k \in DOMAIN map /\ isValid(map[k], t) /\ proms[map[k].value].state = "pending")

\* As NeedsLoad, were the entry of a rejected load not reused.
NeedsLoadIfRejected(map, k, t) ==
  \/ ~(k \in DOMAIN map /\ isValid(map[k], t))
  \/ (map[k].value \in DOMAIN proms /\ proms[map[k].value].state = "rejected")

\* get: !stored?.isValid()
NeedsLoad(map, k, t) == ~(k \in DOMAIN map /\ isValid(map[k], t))

\* As StoreEntry, had the entry been stored without lifetime.
StoreEntryExpired(map, k, p, t) ==
  [x \in DOMAIN map \cup {k} |->
     IF x = k THEN [value |-> p, expiresAt |-> t] ELSE map[x]]

\* As StoreEntry, had the entry been left out of the map.
StoreEntryLater(map, k, p, t) == map

\* get: stored = new MemCacheEntry(this.ttl, loader(key)); this.kv.set(key, stored)
StoreEntry(map, k, p, t) ==
  [x \in DOMAIN map \cup {k} |-> IF x = k THEN MemCacheEntry(p, t) ELSE map[x]]

\* As MapDelete, did it empty the map.
MapDeleteAll(map, k) == [x \in {} |-> map[x]]

\* Map.delete
MapDelete(map, k) == [x \in DOMAIN map \ {k} |-> map[x]]

\* The loader get uses: the argument, by default this.load.
EffectiveLoader(l) == IF l # "none" THEN l ELSE IF defaultLoad THEN "D" ELSE "none"

\* A promise a loader just returned. dropped is history: whether the entry
\* holding the promise was deleted, cleared or has expired.
NewPromise(kind, k, src) ==
  [kind |-> kind, key |-> k, src |-> src, state |-> "pending", val |-> <<>>,
   dropped |-> FALSE]

\* History: ps with the promises marked that the entries of map with a key
\* in K hold.
MarkDropped(ps, map, K) ==
  [p \in DOMAIN ps |->
     IF \E k \in K \cap DOMAIN map : map[k].value = p
       THEN [ps[p] EXCEPT !.dropped = TRUE] ELSE ps[p]]

\* The keys of map whose entry is not valid at time t.
Expired(map, t) == {k \in DOMAIN map : ~isValid(map[k], t)}

\* Time passes.
Tick ==
  /\ now < ttl + MaxPastTTL
  /\ now' = now + 1
  /\ proms' = MarkDropped(proms, kv, Expired(kv, now'))
  /\ UNCHANGED <<kv, expiredDeleteAt, ttl, defaultLoad, returned, runnerVars,
                 controlVars, generatorVars,
                 aggVars>>

\* MemCache.get(key, loader)
Get(k, l) ==
  LET swept == deleteExpiredIfNeed(kv, expiredDeleteAt, now)
      loader == EffectiveLoader(l)
      p == Len(proms) + 1
  IN /\ expiredDeleteAt' = swept.expiredDeleteAt
     /\ IF loader = "none"
          THEN /\ kv' = swept.kv
               /\ proms' = proms
               /\ returned' = <<"throw", LoaderRequired>>
          ELSE IF NeedsLoad(swept.kv, k, now)
            THEN /\ Len(proms) < MaxLoads
                 /\ proms' = Append(proms, NewPromise("loader", k, loader))
                 /\ kv' = StoreEntry(swept.kv, k, p, now)
                 /\ returned' = <<"promise", p, TRUE>>
            ELSE /\ kv' = swept.kv
                 /\ proms' = proms
                 /\ returned' = <<"promise", swept.kv[k].value, FALSE>>
     /\ UNCHANGED <<now, ttl, defaultLoad, runnerVars, controlVars, generatorVars, aggVars>>

\* The promise a loader returned settles.
SettleLoad(p) ==
  /\ proms[p].kind = "loader"
  /\ proms[p].state = "pending"
  /\ \/ proms' = [proms EXCEPT ![p].state = "fulfilled",
                               ![p].val = LoaderValue(proms[p].src, proms[p].key)]
     \/ proms' = [proms EXCEPT ![p].state = "rejected",
                               ![p].val = LoaderError(proms[p].src, proms[p].key)]
  /\ UNCHANGED <<now, kv, expiredDeleteAt, ttl, defaultLoad, returned,
                 runnerVars, controlVars, generatorVars, aggVars>>

\* MemCache.delete(key)
Delete(k) ==
  /\ kv' = MapDelete(kv, k)
  /\ proms' = MarkDropped(proms, kv, {k})
  /\ returned' = <<"bool", k \in DOMAIN kv>>
  /\ UNCHANGED <<now, expiredDeleteAt, ttl, defaultLoad, runnerVars,
                 controlVars, generatorVars, aggVars>>

\* MemCache.clear()
Clear ==
  /\ kv' = EmptyMap
  /\ proms' = MarkDropped(proms, kv, DOMAIN kv)
  /\ returned' = <<"void">>
  /\ UNCHANGED <<now, expiredDeleteAt, ttl, defaultLoad, runnerVars,
                 controlVars, generatorVars, aggVars>>

\* MemCache.deleteExpired()
DeleteExpired ==
  /\ kv' = deleteExpired(kv, now)
  /\ returned' = <<"void">>
  /\ UNCHANGED <<now, expiredDeleteAt, ttl, defaultLoad, proms, runnerVars,
                 controlVars, generatorVars,
                 aggVars>>

\* MemCache.deleteExpiredIfNeed()
DeleteExpiredIfNeed ==
  LET swept == deleteExpiredIfNeed(kv, expiredDeleteAt, now)
  IN /\ kv' = swept.kv
     /\ expiredDeleteAt' = swept.expiredDeleteAt
     /\ returned' = <<"void">>
     /\ UNCHANGED <<now, ttl, defaultLoad, proms, runnerVars, controlVars, generatorVars,
                    aggVars>>

NextCache ==
  \/ Tick
  \/ \E k \in Keys, l \in CallLoaders : Get(k, l)
  \/ \E p \in DOMAIN proms : SettleLoad(p)
  \/ \E k \in Keys : Delete(k)
  \/ Clear
  \/ DeleteExpired
  \/ DeleteExpiredIfNeed

(***************************************************************************)
(* MemAggregateCache: the item cache kv is a MemCache whose default loader *)
(* is key => this.load([key]).then(([value]) => value).                    *)
(***************************************************************************)
\* A key no caller asks for (999 in the tests).
WrongKey == 9

\* The item the backend holds for key k (in the tests {id: k, name: 'item-k'}).
Item(k) == 100 + k

\* getKey: value => value.id
getKey(v) == v - 100

\* const [value] = [] leaves value undefined.
Undefined == 0

\* The error of the j-th invocation of the batch loader, when it rejects.
LoadError(j) == <<"Load error", j>>

\* new Error(`Wrong loaded key "${key}"`)
WrongLoadedKey(k) == <<"Wrong loaded key", k>>

\* storedValue.resolve(value) on a promise that is no ControlPromise.
TypeError == <<"TypeError: storedValue.resolve is not a function", 0>>

Value(v) == <<"ok", v>>

RECURSIVE SeqsUpTo(_, _)
\* The sequences over S of length at most n.
SeqsUpTo(S, n) ==
  IF n = 0 THEN {<<>>}
  ELSE LET shorter == SeqsUpTo(S, n - 1)
       IN shorter \cup {Append(q, x) : q \in shorter, x \in S}

\* The key lists callers pass to getMany.
KeyLists == SeqsUpTo(Keys, MaxKeysLen)

\* What the batch loader may resolve with when asked for the keys ks: any list
\* of at most as many items, also of keys that were not asked for.
Responses(ks) == SeqsUpTo({Item(k) : k \in Keys \cup {WrongKey}}, Len(ks))

\* Map.set
MapSet(map, k, v) == [x \in DOMAIN map \cup {k} |-> IF x = k THEN v ELSE map[x]]

\* As PushKey, had the key been put in front.
PushKeyFront(ks, key) == <<key>> \o ks

\* keysToLoad.push(key)
PushKey(ks, key) == Append(ks, key)

RECURSIVE GetManyLoop(_, _, _, _)
\* getMany's for-loop over the keys `rest` at time t, in call c: each
\* this.kv.get(key, loader), whose loader records the key and returns a new
\* ControlPromise. st holds the cache and the locals map and keysToLoad.
GetManyLoop(rest, st, c, t) ==
  IF rest = <<>> THEN st
  ELSE LET key == Head(rest)
           swept == deleteExpiredIfNeed(st.kv, st.expiredDeleteAt, t)
           p == Len(st.proms) + 1
       IN IF NeedsLoad(swept.kv, key, t)
            THEN GetManyLoop(Tail(rest),
                   [kv |-> StoreEntry(swept.kv, key, p, t),
                    expiredDeleteAt |-> swept.expiredDeleteAt,
                    proms |-> Append(st.proms, NewPromise("control", key, c)),
                    map |-> MapSet(st.map, key, p),
                    keysToLoad |-> PushKey(st.keysToLoad, key)], c, t)
            ELSE GetManyLoop(Tail(rest),
                   [st EXCEPT !.kv = swept.kv,
                              !.expiredDeleteAt = swept.expiredDeleteAt,
                              !.map = MapSet(st.map, key, swept.kv[key].value)],
                   c, t)

\* ControlPromise.resolve(value): nothing unless pending.
resolve(ps, p, v) ==
  IF ps[p].state = "pending"
    THEN [ps EXCEPT ![p].state = "fulfilled", ![p].val = Value(v)]
    ELSE ps

\* ControlPromise.reject(err): nothing unless pending.
reject(ps, p, e) ==
  IF ps[p].state = "pending"
    THEN [ps EXCEPT ![p].state = "rejected", ![p].val = Rejected(e)]
    ELSE ps

RECURSIVE ResolveLoop(_, _, _)
\* getMany's loop over loadedValues: the promises after it and what it threw.
ResolveLoop(values, ps, map) ==
  IF values = <<>> THEN [proms |-> ps, thrown |-> <<>>]
  ELSE LET key == getKey(Head(values))
       IN IF key \notin DOMAIN map
            THEN [proms |-> ps, thrown |-> WrongLoadedKey(key)]
          ELSE IF ps[map[key]].kind # "control"
            THEN [proms |-> ps, thrown |-> TypeError]
          ELSE ResolveLoop(Tail(values), resolve(ps, map[key], Head(values)), map)

\* As RejectLoop, did the catch block reject nothing.
RejectLoopNothing(ks, ps, map, e) == ps

RECURSIVE RejectLoop(_, _, _, _)
\* getMany's catch block: reject the future of every key of keysToLoad.
RejectLoop(ks, ps, map, e) ==
  IF ks = <<>> THEN ps
  ELSE RejectLoop(Tail(ks), reject(ps, map[Head(ks)], e), map, e)

\* As ReturnValues, over the keys of the map instead of the input keys.
ReturnValuesOfMap(keys, map, ps) ==
  LET ks == DOMAIN map
      ord == CHOOSE f \in [1..Cardinality(ks) -> ks] :
               \A i, j \in 1..Cardinality(ks) : i < j => f[i] < f[j]
  IN [i \in 1..Cardinality(ks) |-> ps[map[ord[i]]].val[2]]

\* As ReturnValues, were the values read from the item cache on return.
ReturnValuesOfCache(keys, map, ps) ==
  [i \in 1..Len(keys) |->
     IF keys[i] \in DOMAIN kv /\ ps[kv[keys[i]].value].state = "fulfilled"
       THEN ps[kv[keys[i]].value].val[2]
       ELSE Undefined]

\* What Promise.all(keys.map(key => map.get(key))) resolves with.
ReturnValues(keys, map, ps) ==
  [i \in 1..Len(keys) |-> ps[map[keys[i]]].val[2]]

\* Promise.all(keys.map(key => map.get(key))) at the moment of the call.
AllOfKeys(keys, map, ps) ==
  LET rej == {i \in 1..Len(keys) : ps[map[keys[i]]].state = "rejected"}
  IN IF rej # {} THEN ps[map[keys[Min(rej)]]].val
     ELSE IF \A i \in 1..Len(keys) : ps[map[keys[i]]].state = "fulfilled"
       THEN Fulfilled
     ELSE Pending

\* The getMany calls awaiting their Promise.all, after the promises went from
\* old to new.
Notify(cs, old, new) ==
  [c \in DOMAIN cs |->
     IF cs[c].pc = "all" /\ cs[c].awaitRes = Pending
       THEN LET watched == {cs[c].map[k] : k \in Range(cs[c].keys)}
                rej == {p \in watched :
                          old[p].state = "pending" /\ new[p].state = "rejected"}
            IN [cs[c] EXCEPT !.awaitRes =
                  IF rej # {} THEN new[Min(rej)].val
                  ELSE IF \A p \in watched : new[p].state = "fulfilled"
                    THEN Fulfilled
                  ELSE Pending]
       ELSE cs[c]]

\* MemAggregateCache.get(key): this.kv.get(key) with the default loader.
AggGet(k) ==
  LET swept == deleteExpiredIfNeed(kv, expiredDeleteAt, now)
      p == Len(proms) + 1
      j == Len(loadCalls) + 1
  IN /\ expiredDeleteAt' = swept.expiredDeleteAt
     /\ IF NeedsLoad(swept.kv, k, now)
          THEN /\ Len(loadCalls) < MaxLoads
               /\ loadCalls' = Append(loadCalls,
                    [keys |-> <<k>>, call |-> 0, state |-> "pending",
                    resp |-> <<>>])
               /\ proms' = Append(proms, NewPromise("plain", k, j))
               /\ kv' = StoreEntry(swept.kv, k, p, now)
          ELSE /\ kv' = swept.kv
               /\ UNCHANGED <<loadCalls, proms>>
     /\ UNCHANGED <<now, ttl, defaultLoad, returned, calls, exactLoad,
                    runnerVars, controlVars, generatorVars, complexVars>>

\* MemAggregateCache.getMany(keys), to its first await: what it does to the
\* item cache, the loader and its own record.
GetManyStart(keys) ==
  LET c == Len(calls) + 1
      st == GetManyLoop(keys, [kv |-> kv, expiredDeleteAt |-> expiredDeleteAt,
                               proms |-> proms, map |-> EmptyMap,
                               keysToLoad |-> <<>>], c, now)
      j == Len(loadCalls) + 1
      loading == Len(st.keysToLoad) > 0
  IN /\ Len(calls) < MaxCalls
     /\ loading => Len(loadCalls) < MaxLoads
     /\ kv' = st.kv
     /\ expiredDeleteAt' = st.expiredDeleteAt
     /\ proms' = st.proms
     /\ loadCalls' = IF loading
                       THEN Append(loadCalls, [keys |-> st.keysToLoad, call |-> c,
                                               state |-> "pending",
                                               resp |-> <<>>])
                       ELSE loadCalls
     /\ calls' = Append(calls,
          [keys |-> keys, map |-> st.map, keysToLoad |-> st.keysToLoad,
           load |-> IF loading THEN j ELSE 0,
           pc |-> IF loading THEN "load" ELSE "all",
           awaitRes |-> IF loading THEN Pending
                        ELSE AllOfKeys(keys, st.map, st.proms),
           outcome |-> <<"none">>])

\* A caller calls getMany(keys).
GetMany(keys) ==
  /\ GetManyStart(keys)
  /\ UNCHANGED <<now, ttl, defaultLoad, returned, exactLoad, runnerVars,
                 controlVars, generatorVars,
                 complexVars>>

\* What the promise this.load(keys) returned may settle with, as invocation j.
LoadOutcomes(j) ==
  (IF exactLoad
     THEN {[state |-> "fulfilled",
            resp |-> [i \in 1..Len(loadCalls[j].keys) |-> Item(loadCalls[j].keys[i])]]}
     ELSE {[state |-> "fulfilled", resp |-> r] : r \in Responses(loadCalls[j].keys)})
    \cup {[state |-> "rejected", resp |-> LoadError(j)]}

\* The load of get's default loader settles and its then-callback
\* ([value]) => value runs, or the rejection passes it by: the promise get
\* returned settles.
GetThen(p) ==
  /\ proms[p].kind = "plain"
  /\ proms[p].state = "pending"
  /\ \E o \in LoadOutcomes(proms[p].src) :
       /\ loadCalls' = [loadCalls EXCEPT ![proms[p].src].state = o.state,
                                         ![proms[p].src].resp = o.resp]
       /\ proms' = IF o.state = "rejected"
                     THEN [proms EXCEPT ![p].state = "rejected",
                                        ![p].val = Rejected(o.resp)]
                     ELSE [proms EXCEPT ![p].state = "fulfilled",
                                        ![p].val = Value(IF o.resp = <<>>
                                                           THEN Undefined
                                                           ELSE Head(o.resp))]
  /\ calls' = Notify(calls, proms, proms')
  /\ UNCHANGED <<now, kv, expiredDeleteAt, ttl, defaultLoad, returned,
                 exactLoad, runnerVars, controlVars, generatorVars, complexVars>>

\* The load getMany awaits settles and getMany resumes: the loop over the
\* loaded values, or the catch block.
GetManyResume(c) ==
  /\ calls[c].pc = "load"
  /\ \E o \in LoadOutcomes(calls[c].load) :
       LET call == calls[c]
           res == IF o.state = "rejected"
                    THEN [proms |-> proms, thrown |-> o.resp]
                    ELSE ResolveLoop(o.resp, proms, call.map)
           failed == res.thrown # <<>>
       IN /\ loadCalls' = [loadCalls EXCEPT ![call.load].state = o.state,
                                            ![call.load].resp = o.resp]
          /\ proms' = IF failed
                        THEN RejectLoop(call.keysToLoad, res.proms, call.map,
                                        res.thrown)
                        ELSE res.proms
          /\ calls' = [Notify(calls, proms, proms') EXCEPT ![c] =
               IF failed
                 THEN [call EXCEPT !.pc = "done", !.outcome = Rejected(res.thrown)]
                 ELSE [call EXCEPT !.pc = "all",
                         !.awaitRes = AllOfKeys(call.keys, call.map, proms')]]
  /\ UNCHANGED <<now, kv, expiredDeleteAt, ttl, defaultLoad, returned,
                 exactLoad, runnerVars, controlVars, generatorVars, complexVars>>

\* getMany's final Promise.all settles and with it the call.
GetManyReturn(c) ==
  LET call == calls[c]
  IN /\ call.pc = "all"
     /\ call.awaitRes # Pending
     /\ calls' = [calls EXCEPT ![c].pc = "done", ![c].outcome =
          IF call.awaitRes = Fulfilled
            THEN Value(ReturnValues(call.keys, call.map, proms))
            ELSE call.awaitRes]
     /\ UNCHANGED <<cacheVars, loadCalls, exactLoad, runnerVars, controlVars, generatorVars,
                    complexVars>>

\* As AggClear, did it clear the item cache only.
AggClearItemsOnly ==
  /\ kv' = EmptyMap
  /\ proms' = MarkDropped(proms, kv, DOMAIN kv)
  /\ UNCHANGED <<now, expiredDeleteAt, ttl, defaultLoad, returned, loadCalls,
                 calls, complexVars, exactLoad, runnerVars, controlVars,
                 generatorVars>>

\* MemAggregateCache.clear()
AggClear ==
  /\ kv' = EmptyMap
  /\ cmkks' = EmptyMap
  /\ proms' = MarkDropped(proms, kv, DOMAIN kv)
  /\ UNCHANGED <<now, expiredDeleteAt, ttl, defaultLoad, returned, loadCalls,
                 calls, cmkksExpiredDeleteAt, keyLoads, complexCalls, exactLoad,
                 runnerVars, controlVars, generatorVars>>

\* MemAggregateCache.deleteExpired()
AggDeleteExpired ==
  /\ kv' = deleteExpired(kv, now)
  /\ cmkks' = deleteExpired(cmkks, now)
  /\ UNCHANGED <<now, expiredDeleteAt, ttl, defaultLoad, returned, proms,
                 loadCalls, calls, cmkksExpiredDeleteAt, keyLoads, complexCalls,
                 exactLoad, runnerVars, controlVars, generatorVars>>

\* MemAggregateCache.deleteExpiredIfNeed()
AggDeleteExpiredIfNeed ==
  LET swept == deleteExpiredIfNeed(kv, expiredDeleteAt, now)
      sweptKeys == deleteExpiredIfNeed(cmkks, cmkksExpiredDeleteAt, now)
  IN /\ kv' = swept.kv
     /\ expiredDeleteAt' = swept.expiredDeleteAt
     /\ cmkks' = sweptKeys.kv
     /\ cmkksExpiredDeleteAt' = sweptKeys.expiredDeleteAt
     /\ UNCHANGED <<now, ttl, defaultLoad, returned, proms, loadCalls, calls,
                    keyLoads, complexCalls, exactLoad, runnerVars, controlVars,
                    generatorVars>>

NextAgg ==
  \/ Tick
  \/ \E k \in Keys : AggGet(k)
  \/ \E keys \in KeyLists : GetMany(keys)
  \/ \E p \in DOMAIN proms : GetThen(p)
  \/ \E c \in DOMAIN calls : GetManyResume(c)
  \/ \E c \in DOMAIN calls : GetManyReturn(c)
  \/ AggClear
  \/ AggDeleteExpired

\* An aggregate cache just constructed, at time 0.
InitAgg ==
  /\ now = 0
  /\ kv = EmptyMap
  /\ expiredDeleteAt = 0
  /\ ttl = 1
  /\ defaultLoad = TRUE
  /\ proms = <<>>
  /\ returned = <<"none">>
  /\ loadCalls = <<>>
  /\ calls = <<>>
  /\ exactLoad = FALSE
  /\ cmkks = EmptyMap
  /\ cmkksExpiredDeleteAt = 0
  /\ keyLoads = <<>>
  /\ complexCalls = <<>>
  /\ cpResolved = FALSE
  /\ cpRejected = FALSE
  /\ cpPromise = Pending
  /\ cpCalls = <<>>
  /\ cpThenable = "pending"
  \* no generator
  /\ generatorPc = "done"
  /\ consumed = 0
  /\ generatorBatch = <<>>
  /\ yielded = <<>>
  \* no call of a runner
  /\ variant = "handleParallel"
  /\ concurrency = 1
  /\ batchSize = 1
  /\ items = <<>>
  /\ handlerGiven = TRUE
  /\ units = <<>>
  /\ pc = "done"
  /\ idx = 1
  /\ hstate = <<>>
  /\ pstate = <<>>
  /\ queue = {}
  /\ result = <<>>
  /\ awaiting = {}
  /\ awaitRes = Pending
  /\ outcome = <<"none">>
  /\ completed = <<>>
  /\ voidRun = VoidInit

SpecAgg == InitAgg /\ [][NextAgg]_vars

(***************************************************************************)
(* MemAggregateCache.getManyByComplexKey: the cache cmkks maps a complex   *)
(* key to the promise of a list of item keys.                              *)
(***************************************************************************)
\* The complex keys callers use.
ComplexKeys == {"complex-1"}

\* The error of a keys loader that rejects, as the q-th one invoked.
ComplexLoadError(q) == <<"Complex load error", q>>

\* getManyByComplexKey(complexKey, loader), to its await: cmkks.get with the
\* loader () => loader(). invoked records whether this call's loader ran.
ComplexStart(ck) ==
  LET swept == deleteExpiredIfNeed(cmkks, cmkksExpiredDeleteAt, now)
      q == Len(keyLoads) + 1
      load == NeedsLoad(swept.kv, ck, now)
  IN /\ Len(complexCalls) < MaxCalls
     /\ cmkksExpiredDeleteAt' = swept.expiredDeleteAt
     /\ cmkks' = IF load THEN StoreEntry(swept.kv, ck, q, now) ELSE swept.kv
     /\ keyLoads' = IF load
                      THEN Append(keyLoads, [complexKey |-> ck, state |-> "pending",
                                             val |-> <<>>])
                      ELSE keyLoads
     /\ complexCalls' = Append(complexCalls,
          [complexKey |-> ck, keyLoad |-> cmkks'[ck].value, invoked |-> load,
           pc |-> "keys", many |-> 0, outcome |-> <<"none">>])
     /\ UNCHANGED <<cacheVars, loadCalls, calls, exactLoad, runnerVars,
                    controlVars, generatorVars>>

\* The promise a keys loader returned settles, with a list of item keys or
\* with an error.
KeysSettle(q) ==
  /\ keyLoads[q].state = "pending"
  /\ \/ \E ks \in KeyLists :
          keyLoads' = [keyLoads EXCEPT ![q].state = "fulfilled", ![q].val = ks]
     \/ keyLoads' = [keyLoads EXCEPT ![q].state = "rejected",
                                     ![q].val = ComplexLoadError(q)]
  /\ UNCHANGED <<cacheVars, loadCalls, calls, cmkks, cmkksExpiredDeleteAt,
                 complexCalls, exactLoad, runnerVars, controlVars, generatorVars>>

\* As ComplexResume, did it take a failure of the keys loader for no keys.
ComplexResumeSwallowing(cc) ==
  LET call == complexCalls[cc]
      q == call.keyLoad
  IN /\ call.pc = "keys"
     /\ keyLoads[q].state # "pending"
     /\ GetManyStart(IF keyLoads[q].state = "rejected" THEN <<>>
                     ELSE keyLoads[q].val)
     /\ complexCalls' = [complexCalls EXCEPT
          ![cc].pc = "many", ![cc].many = Len(calls) + 1]
     /\ UNCHANGED <<now, ttl, defaultLoad, returned, cmkks,
                    cmkksExpiredDeleteAt,
                    keyLoads, exactLoad, runnerVars, controlVars, generatorVars>>

\* getManyByComplexKey resumes after await this.cmkks.get(...): it fails with
\* the keys loader's error, or calls this.getMany(keys) and returns its
\* promise.
ComplexResume(cc) ==
  LET call == complexCalls[cc]
      q == call.keyLoad
  IN /\ call.pc = "keys"
     /\ keyLoads[q].state # "pending"
     /\ IF keyLoads[q].state = "rejected"
          THEN /\ complexCalls' = [complexCalls EXCEPT
                    ![cc].pc = "done", ![cc].outcome = Rejected(keyLoads[q].val)]
               /\ UNCHANGED <<kv, expiredDeleteAt, proms, loadCalls, calls>>
          ELSE /\ GetManyStart(keyLoads[q].val)
               /\ complexCalls' = [complexCalls EXCEPT
                    ![cc].pc = "many", ![cc].many = Len(calls) + 1]
     /\ UNCHANGED <<now, ttl, defaultLoad, returned, cmkks,
                    cmkksExpiredDeleteAt,
                    keyLoads, exactLoad, runnerVars, controlVars, generatorVars>>

\* How the promise of getManyByComplexKey settled: it follows the promise of
\* its getMany.
ComplexOutcome(cc) ==
  IF complexCalls[cc].pc = "many"
    THEN calls[complexCalls[cc].many].outcome
    ELSE complexCalls[cc].outcome

NextComplex ==
  \/ Tick
  \/ \E k \in Keys : AggGet(k)
  \/ \E ck \in ComplexKeys : ComplexStart(ck)
  \/ \E q \in DOMAIN keyLoads : KeysSettle(q)
  \/ \E cc \in DOMAIN complexCalls : ComplexResume(cc)
  \/ \E p \in DOMAIN proms : GetThen(p)
  \/ \E c \in DOMAIN calls : GetManyResume(c)
  \/ \E c \in DOMAIN calls : GetManyReturn(c)

\* An aggregate cache just constructed, at time 0, used through get and
\* getManyByComplexKey.
InitComplex ==
  /\ now = 0
  /\ kv = EmptyMap
  /\ expiredDeleteAt = 0
  /\ ttl = 1
  /\ defaultLoad = TRUE
  /\ proms = <<>>
  /\ returned = <<"none">>
  /\ loadCalls = <<>>
  /\ calls = <<>>
  /\ exactLoad = TRUE
  /\ cmkks = EmptyMap
  /\ cmkksExpiredDeleteAt = 0
  /\ keyLoads = <<>>
  /\ complexCalls = <<>>
  /\ cpResolved = FALSE
  /\ cpRejected = FALSE
  /\ cpPromise = Pending
  /\ cpCalls = <<>>
  /\ cpThenable = "pending"
  \* no generator
  /\ generatorPc = "done"
  /\ consumed = 0
  /\ generatorBatch = <<>>
  /\ yielded = <<>>
  \* no call of a runner
  /\ variant = "handleParallel"
  /\ concurrency = 1
  /\ batchSize = 1
  /\ items = <<>>
  /\ handlerGiven = TRUE
  /\ units = <<>>
  /\ pc = "done"
  /\ idx = 1
  /\ hstate = <<>>
  /\ pstate = <<>>
  /\ queue = {}
  /\ result = <<>>
  /\ awaiting = {}
  /\ awaitRes = Pending
  /\ outcome = <<"none">>
  /\ completed = <<>>
  /\ voidRun = VoidInit

SpecComplex == InitComplex /\ [][NextComplex]_vars

\* get, getManyByComplexKey up to its await of the keys, and clear,
\* deleteExpired and deleteExpiredIfNeed of the aggregate cache.
NextFanOut ==
  \/ Tick
  \/ \E k \in Keys : AggGet(k)
  \/ \E p \in DOMAIN proms : GetThen(p)
  \/ \E ck \in ComplexKeys : ComplexStart(ck)
  \/ \E q \in DOMAIN keyLoads : KeysSettle(q)
  \/ AggClear
  \/ AggDeleteExpired
  \/ AggDeleteExpiredIfNeed

SpecFanOut == InitComplex /\ [][NextFanOut]_vars

(***************************************************************************)
(* The values-first variant of getManyByComplexKey, mgetByKeyValues. Its   *)
(* code is not among the sources; it is modelled after its description:    *)
(* the loader returns the values, each is put into the item cache under    *)
(* its derived key, the batch loader is not involved, the values are       *)
(* returned.                                                               *)
(***************************************************************************)

\* The error of a values loader that rejects, as the q-th one invoked.
ValuesLoadError(q) == <<"Values load error", q>>

\* The lists of values a values loader answers with: none, one, two, and one
\* twice.
ValuesAnswers ==
  {<<>>, <<Item(2)>>, <<Item(1), Item(2)>>, <<Item(1), Item(1)>>}

\* The key lists callers pass to getMany after mgetByKeyValues.
ValuesKeyLists == {<<1, 2>>}

\* The promise of a value put into the item cache: fulfilled with it.
ValuePromise(v, q) ==
  [kind |-> "value", key |-> getKey(v), src |-> q, state |-> "fulfilled",
   val |-> Value(v), dropped |-> FALSE]

\* As StoreValues, did it put nothing into the item cache.
StoreValuesNowhere(vs, st, q, t) == st

RECURSIVE StoreValues(_, _, _, _)
\* Each value of vs put into the item cache st.kv at time t, under its
\* derived key, as an entry of its own.
StoreValues(vs, st, q, t) ==
  IF vs = <<>> THEN st
  ELSE LET v == Head(vs)
           p == Len(st.proms) + 1
       IN StoreValues(Tail(vs),
            [kv |-> StoreEntry(st.kv, getKey(v), p, t),
             proms |-> Append(MarkDropped(st.proms, st.kv, {getKey(v)}),
                              ValuePromise(v, q))],
            q, t)

\* mgetByKeyValues(complexKey, loader), to its await: the values loader is
\* invoked.
ValuesStart(ck) ==
  LET q == Len(keyLoads) + 1
  IN /\ Len(complexCalls) < MaxCalls
     /\ keyLoads' = Append(keyLoads, [complexKey |-> ck, state |-> "pending",
                                      val |-> <<>>])
     /\ complexCalls' = Append(complexCalls,
          [complexKey |-> ck, keyLoad |-> q, invoked |-> TRUE,
           pc |-> "values", many |-> 0, outcome |-> <<"none">>])
     /\ UNCHANGED <<cacheVars, loadCalls, calls, exactLoad, cmkks,
                    cmkksExpiredDeleteAt, runnerVars, controlVars,
                    generatorVars>>

\* The promise of the values loader settles and mgetByKeyValues resumes: it
\* fails with the loader's error, or stores the values and returns them.
ValuesResume(cc) ==
  LET call == complexCalls[cc]
      q == call.keyLoad
  IN /\ call.pc = "values"
     /\ \/ /\ keyLoads' = [keyLoads EXCEPT ![q].state = "rejected",
                                           ![q].val = ValuesLoadError(q)]
           /\ complexCalls' = [complexCalls EXCEPT
                ![cc].pc = "done", ![cc].outcome = Rejected(ValuesLoadError(q))]
           /\ UNCHANGED <<kv, proms>>
        \/ \E vs \in ValuesAnswers :
             LET st == StoreValues(vs, [kv |-> kv, proms |-> proms], q, now)
             IN /\ keyLoads' = [keyLoads EXCEPT ![q].state = "fulfilled",
                                                ![q].val = vs]
                /\ kv' = st.kv
                /\ proms' = st.proms
                /\ complexCalls' = [complexCalls EXCEPT
                     ![cc].pc = "done", ![cc].outcome = Value(vs)]
     /\ UNCHANGED <<now, expiredDeleteAt, ttl, defaultLoad, returned, loadCalls,
                    calls, exactLoad, cmkks, cmkksExpiredDeleteAt, runnerVars,
                    controlVars, generatorVars>>

\* get, getMany and mgetByKeyValues on an aggregate cache, as time passes.
NextValues ==
  \/ Tick
  \/ \E k \in Keys : AggGet(k)
  \/ \E p \in DOMAIN proms : GetThen(p)
  \/ \E keys \in ValuesKeyLists : GetMany(keys)
  \/ \E c \in DOMAIN calls : GetManyResume(c)
  \/ \E c \in DOMAIN calls : GetManyReturn(c)
  \/ \E ck \in ComplexKeys : ValuesStart(ck)
  \/ \E cc \in DOMAIN complexCalls : ValuesResume(cc)

SpecValues == InitComplex /\ [][NextValues]_vars

(***************************************************************************)
(* ControlPromise: a promise with its resolve and reject as methods.       *)
(***************************************************************************)
\* What callers pass to resolve: a plain value, or a thenable (a promise).
ResolveArgs == {<<"value", 1>>, <<"value", 2>>, <<"thenable", 0>>}

\* What callers pass to reject.
RejectArgs == {1, 2}

\* What the thenable fulfils with, and the error it rejects with.
ThenableValue == 3

\* A promise that was resolved with a thenable and follows it.
Locked == <<"locked">>

\* As the getter pending, did it look at _rejected only.
pendingIgnoringResolved == ~cpRejected

\* As the getter pending, did it look at _resolved only.
pendingIgnoringRejected == ~cpResolved

\* get pending(): !this._resolved && !this._rejected
pending == ~cpResolved /\ ~cpRejected

\* The resolve function of the promise itself (this._resolve): nothing once
\* the promise is resolved; a thenable is followed, a value fulfils.
NativeResolve(pr, arg) ==
  IF pr # Pending THEN pr
  ELSE IF arg[1] = "thenable" THEN Locked
  ELSE Value(arg[2])

\* The reject function of the promise itself (this._reject).
NativeReject(pr, e) == IF pr # Pending THEN pr ELSE Rejected(e)

\* ControlPromise.resolve(result)
ControlResolve(arg) ==
  /\ Len(cpCalls) < MaxControlCalls
  /\ cpCalls' = Append(cpCalls, <<"resolve", arg>>)
  /\ IF pending
       THEN /\ cpResolved' = TRUE
            /\ cpPromise' = NativeResolve(cpPromise, arg)
       ELSE UNCHANGED <<cpResolved, cpPromise>>
  /\ UNCHANGED <<cpRejected, cpThenable, runnerVars, cacheVars, aggVars, generatorVars>>

\* ControlPromise.reject(err)
ControlReject(e) ==
  /\ Len(cpCalls) < MaxControlCalls
  /\ cpCalls' = Append(cpCalls, <<"reject", <<"error", e>>>>)
  /\ IF pending
       THEN /\ cpRejected' = TRUE
            /\ cpPromise' = NativeReject(cpPromise, e)
       ELSE UNCHANGED <<cpRejected, cpPromise>>
  /\ UNCHANGED <<cpResolved, cpThenable, runnerVars, cacheVars, aggVars, generatorVars>>

\* The thenable settles.
ThenableSettle ==
  /\ cpThenable = "pending"
  /\ cpThenable' \in {"fulfilled", "rejected"}
  /\ UNCHANGED <<cpResolved, cpRejected, cpPromise, cpCalls, runnerVars,
                 cacheVars, aggVars, generatorVars>>

\* A promise resolved with a thenable settles as the thenable did.
ControlFollow ==
  /\ cpPromise = Locked
  /\ cpThenable # "pending"
  /\ cpPromise' = IF cpThenable = "fulfilled" THEN Value(ThenableValue)
                  ELSE Rejected(ThenableValue)
  /\ UNCHANGED <<cpResolved, cpRejected, cpCalls, cpThenable, runnerVars,
                 cacheVars, aggVars, generatorVars>>

NextControl ==
  \/ \E arg \in ResolveArgs : ControlResolve(arg)
  \/ \E e \in RejectArgs : ControlReject(e)
  \/ ThenableSettle
  \/ ControlFollow

\* new ControlPromise()
InitControl ==
  /\ cpResolved = FALSE
  /\ cpRejected = FALSE
  /\ cpPromise = Pending
  /\ cpCalls = <<>>
  /\ cpThenable = "pending"
  \* no generator
  /\ generatorPc = "done"
  /\ consumed = 0
  /\ generatorBatch = <<>>
  /\ yielded = <<>>
  \* no cache
  /\ now = 0
  /\ kv = EmptyMap
  /\ expiredDeleteAt = 0
  /\ ttl = 1
  /\ defaultLoad = FALSE
  /\ proms = <<>>
  /\ returned = <<"none">>
  /\ loadCalls = <<>>
  /\ calls = <<>>
  /\ exactLoad = FALSE
  /\ cmkks = EmptyMap
  /\ cmkksExpiredDeleteAt = 0
  /\ keyLoads = <<>>
  /\ complexCalls = <<>>
  \* no call of a runner
  /\ variant = "handleParallel"
  /\ concurrency = 1
  /\ batchSize = 1
  /\ items = <<>>
  /\ handlerGiven = TRUE
  /\ units = <<>>
  /\ pc = "done"
  /\ idx = 1
  /\ hstate = <<>>
  /\ pstate = <<>>
  /\ queue = {}
  /\ result = <<>>
  /\ awaiting = {}
  /\ awaitRes = Pending
  /\ outcome = <<"none">>
  /\ completed = <<>>
  /\ voidRun = VoidInit

SpecControl == InitControl /\ [][NextControl]_vars

(***************************************************************************)
(* batchGenerator, next to the batching step of batchParallel.             *)
(***************************************************************************)

RECURSIVE GeneratorLoopLate(_, _, _, _)
\* As GeneratorLoop, did it yield one item late.
GeneratorLoopLate(size, its, taken, b) ==
  IF taken = Len(its) THEN [consumed |-> taken, batch |-> b, yields |-> FALSE]
  ELSE LET pushed == Append(b, its[taken + 1])
       IN IF Len(pushed) = size + 1
            THEN [consumed |-> taken + 1, batch |-> pushed, yields |-> TRUE]
            ELSE GeneratorLoopLate(size, its, taken + 1, pushed)

RECURSIVE GeneratorLoop(_, _, _, _)
\* The for-loop of batchGenerator from the item after the first `taken`, with
\* the batch b, up to its next yield or to the end of the items.
GeneratorLoop(size, its, taken, b) ==
  IF taken = Len(its) THEN [consumed |-> taken, batch |-> b, yields |-> FALSE]
  ELSE LET pushed == Append(b, its[taken + 1])
       IN IF Len(pushed) = size
            THEN [consumed |-> taken + 1, batch |-> pushed, yields |-> TRUE]
            ELSE GeneratorLoop(size, its, taken + 1, pushed)

\* One call of next() on the generator: it runs from where it is suspended to
\* its next yield or to its end. Resuming after the yield of the loop starts
\* with batch = [].
GeneratorNext ==
  /\ generatorPc # "done"
  /\ IF generatorPc = "last"
       THEN /\ generatorPc' = "done"
            /\ UNCHANGED <<consumed, generatorBatch, yielded>>
       ELSE LET from == IF generatorPc = "yield" THEN <<>> ELSE generatorBatch
                run == GeneratorLoop(batchSize, items, consumed, from)
            IN /\ consumed' = run.consumed
               /\ generatorBatch' = run.batch
               /\ IF run.yields
                    THEN /\ yielded' = Append(yielded, run.batch)
                         /\ generatorPc' = "yield"
                    ELSE IF Len(run.batch) > 0
                           THEN /\ yielded' = Append(yielded, run.batch)
                                /\ generatorPc' = "last"
                           ELSE /\ yielded' = yielded
                                /\ generatorPc' = "done"
  /\ UNCHANGED <<runnerVars, cacheVars, aggVars, controlVars>>

\* The batching of the same items by batchParallel or batchParallelVoid, and
\* the calls of next() on the generator.
NextBatching ==
  \/ Entry
  \/ GeneratorNext

\* batchGenerator(batchSize, items) just called and batchParallel or
\* batchParallelVoid about to be called, on the same batch size and items.
InitBatching ==
  /\ variant \in {"batchParallel", "batchParallelVoid"}
  /\ concurrency = 1
  /\ batchSize \in 0..MaxBatchSize
  /\ \E n \in 0..MaxItems : items = [i \in 1..n |-> i]
  /\ handlerGiven = TRUE
  /\ units = <<>>
  /\ pc = "entry"
  /\ idx = 1
  /\ hstate = <<>>
  /\ pstate = <<>>
  /\ queue = {}
  /\ result = <<>>
  /\ awaiting = {}
  /\ awaitRes = Pending
  /\ outcome = <<"none">>
  /\ completed = <<>>
  /\ voidRun = VoidInit
  /\ generatorPc = "start"
  /\ consumed = 0
  /\ generatorBatch = <<>>
  /\ yielded = <<>>
  \* no cache
  /\ now = 0
  /\ kv = EmptyMap
  /\ expiredDeleteAt = 0
  /\ ttl = 1
  /\ defaultLoad = FALSE
  /\ proms = <<>>
  /\ returned = <<"none">>
  /\ loadCalls = <<>>
  /\ calls = <<>>
  /\ exactLoad = FALSE
  /\ cmkks = EmptyMap
  /\ cmkksExpiredDeleteAt = 0
  /\ keyLoads = <<>>
  /\ complexCalls = <<>>
  \* no ControlPromise
  /\ cpResolved = FALSE
  /\ cpRejected = FALSE
  /\ cpPromise = Pending
  /\ cpCalls = <<>>
  /\ cpThenable = "pending"

SpecBatching == InitBatching /\ [][NextBatching]_vars



\* A cache just constructed, at time 0: expiredDeleteAt = Date.now().
InitCache ==
  /\ now = 0
  /\ kv = EmptyMap
  /\ expiredDeleteAt = 0
  /\ ttl \in TTLs
  /\ defaultLoad \in BOOLEAN
  /\ proms = <<>>
  /\ returned = <<"none">>
  \* no batch loader
  /\ loadCalls = <<>>
  /\ calls = <<>>
  /\ exactLoad = FALSE
  /\ cmkks = EmptyMap
  /\ cmkksExpiredDeleteAt = 0
  /\ keyLoads = <<>>
  /\ complexCalls = <<>>
  /\ cpResolved = FALSE
  /\ cpRejected = FALSE
  /\ cpPromise = Pending
  /\ cpCalls = <<>>
  /\ cpThenable = "pending"
  \* no generator
  /\ generatorPc = "done"
  /\ consumed = 0
  /\ generatorBatch = <<>>
  /\ yielded = <<>>
  \* no call of a runner
  /\ variant = "handleParallel"
  /\ concurrency = 1
  /\ batchSize = 1
  /\ items = <<>>
  /\ handlerGiven = TRUE
  /\ units = <<>>
  /\ pc = "done"
  /\ idx = 1
  /\ hstate = <<>>
  /\ pstate = <<>>
  /\ queue = {}
  /\ result = <<>>
  /\ awaiting = {}
  /\ awaitRes = Pending
  /\ outcome = <<"none">>
  /\ completed = <<>>
  /\ voidRun = VoidInit

SpecRunner == InitRunner /\ [][NextRunner]_vars

SpecCache == InitCache /\ [][NextCache]_vars

\* The runners under the event loop: a job that is ready runs, and an
\* operation that was started completes.
FairSpecRunner == SpecRunner /\ WF_vars(NextRunner)

(***************************************************************************)
(* Claims about the runners, checked under SpecRunner.                     *)
(***************************************************************************)
\* The units started and not yet completed.
Outstanding == {i \in DOMAIN hstate : hstate[i] = "running"}

\* The units whose operation threw or rejected.
Failed == {i \in DOMAIN hstate : hstate[i] \in {"thrown", "rejected"}}

\* C1: for every concurrency C >= 1, in every reachable state of each of the
\* six runners, the number of units started and not yet completed is at most
\* C, whatever the completion order.
C1_AtMostCOutstanding ==
  concurrency >= 1 => Cardinality(Outstanding) <= concurrency

\* C1's case: with C = 2 and three units, the third unit was admitted after
\* one of the first two completed, and the window is full again.
C1_Witness ==
  /\ concurrency = 2
  /\ Len(units) = 3
  /\ hstate[3] = "running"
  /\ Cardinality(Outstanding) = 2
  /\ \E i \in 1..2 : hstate[i] = "fulfilled"

\* What C2 expects of a call whose units all succeeded: the i-th element is
\* the i-th unit's result; for batchParallel the batches' results in batch
\* order, concatenated.
C2_Expected ==
  IF IsBatch(variant)
    THEN Flat([k \in 1..Len(units) |-> UnitResult(variant, units[k])])
    ELSE [i \in 1..Len(items) |-> ItemResult(items[i])]

\* C2: when every unit succeeds, runParallel and handleParallel return a
\* sequence of length N whose i-th element is the i-th unit's result, and
\* batchParallel the batches' handler results concatenated in batch order,
\* for every completion order.
C2_ResultsInInputOrder ==
  ( /\ pc = "done"
    /\ ~IsVoid(variant)
    /\ handlerGiven
    /\ \A i \in DOMAIN hstate : hstate[i] = "fulfilled" )
  => outcome = <<"ok", C2_Expected>>

\* C2's case: three units completed in the reverse of the input order and the
\* call returned.
C2_Witness ==
  /\ pc = "done"
  /\ ~IsVoid(variant)
  /\ Len(units) = 3
  /\ completed = <<3, 2, 1>>
  /\ outcome[1] = "ok"
  /\ Len(outcome[2]) >= 3

\* C10: if some unit's operation fails, by throwing when invoked or by
\* rejecting, the call fails with the error of a failed unit itself, not
\* wrapped, and returns no result.
C10_FailsWithUnitError ==
  (pc = "done" /\ Failed # {})
  => outcome \in {Rejected(UnitError(i)) : i \in Failed}

\* C10's case: a unit rejected asynchronously while another succeeded, and the
\* call failed with the rejected unit's error.
C10_Witness ==
  /\ pc = "done"
  /\ \E i \in DOMAIN hstate, j \in DOMAIN hstate :
       /\ hstate[i] = "rejected"
       /\ outcome = Rejected(UnitError(i))
       /\ pstate[j] = "fulfilled"

\* C11: with concurrency 0 or 1 no unit is started before the unit before it
\* has completed, so the units run one after the other in source order and at
\* most one is outstanding.
C11_SequentialAtZeroOrOne ==
  concurrency <= 1 =>
    /\ Cardinality(Outstanding) <= 1
    /\ \A i \in DOMAIN hstate :
         (i > 1 /\ hstate[i] # "idle") => hstate[i - 1] \notin {"idle", "running"}
    /\ \A m, n \in DOMAIN completed : m < n => completed[m] < completed[n]

\* C11's case: with concurrency 0 three units ran, the last one is running
\* after the first two completed in turn.
C11_Witness ==
  /\ concurrency = 0
  /\ Len(units) = 3
  /\ completed = <<1, 2>>
  /\ hstate[3] = "running"

\* C18: handleParallel, handleParallelVoid, batchParallel and batchParallelVoid
\* called without a handler fail with 'Handler is required' and start no unit.
C18_HandlerRequired ==
  (NeedsHandler(variant) /\ ~handlerGiven /\ pc # "entry") =>
    /\ pc = "done"
    /\ outcome = Rejected(HandlerRequired)
    /\ \A i \in DOMAIN hstate : hstate[i] = "idle"
    /\ idx = 1
    /\ completed = <<>>

\* C18's case: batchParallel without a handler, with two batches to run, has
\* failed.
C18_Witness ==
  /\ variant = "batchParallel"
  /\ ~handlerGiven
  /\ pc = "done"
  /\ Len(units) = 2
  /\ outcome = Rejected(HandlerRequired)

\* C24 as stated: with a concurrency at or above the number of units the call
\* never suspends on the race.
C24_NeverWaits ==
  (pc # "entry" /\ concurrency >= Len(units)) => pc # "race"

\* C24, amended: with a concurrency above the number of units the call never
\* suspends on the race; with a concurrency equal to it the call suspends on
\* the race only after it has started the last unit; a unit is left unstarted
\* only while the loop runs, before anything completed, or for good after a
\* unit threw when started or the handler was missing.
C24_NoWaitBeforeLastStart ==
  (pc # "entry" /\ concurrency >= Len(units)) =>
    /\ concurrency > Len(units) => pc # "race"
    /\ pc = "race" => idx > Len(units)
    /\ (\E i \in DOMAIN hstate : hstate[i] = "idle") =>
         \/ pc = "loop" /\ completed = <<>>
         \/ pc = "done" /\ \E i \in DOMAIN hstate : hstate[i] = "thrown"
         \/ pc = "done" /\ outcome = Rejected(HandlerRequired)

\* C24's case: three units under a concurrency of 3 are all running, none has
\* completed, and the call is suspended on the race.
C24_Witness ==
  /\ concurrency = 3
  /\ Len(units) = 3
  /\ pc = "race"
  /\ \A i \in 1..3 : hstate[i] = "running"
  /\ completed = <<>>

\* The units whose handler threw when it was invoked.
Thrown == {i \in DOMAIN hstate : hstate[i] = "thrown"}

\* C25 as stated: in handleParallel with concurrency 2, after the handler of
\* one item threw, the handler of every other item was run.
C25_OthersAllRun ==
  (variant = "handleParallel" /\ concurrency = 2 /\ Thrown # {}) =>
    \A j \in DOMAIN hstate \ Thrown : hstate[j] # "idle"

\* C25, amended: in handleParallel, when the handler of an item throws, the
\* call has failed with that error and holds no result; the items before it
\* were started and those still running can complete, nothing cancels them;
\* the items after it are never started.
C25_ThrowEndsAdmission ==
  (variant = "handleParallel" /\ Thrown # {}) =>
    \E i \in Thrown :
      /\ Thrown = {i}
      /\ pc = "done"
      /\ outcome = Rejected(UnitError(i))
      /\ \A j \in DOMAIN hstate :
           /\ j < i => hstate[j] # "idle"
           /\ j > i => hstate[j] = "idle"
           /\ hstate[j] = "running" => ENABLED Settle(j)

\* C25's case: handleParallel(2, [1, 2, 3], handler) whose handler threw for
\* item 2: the call failed with that error, the operation of item 1 completed
\* afterwards and the handler was never run for item 3.
C25_Witness ==
  /\ variant = "handleParallel"
  /\ concurrency = 2
  /\ Len(units) = 3
  /\ hstate = <<"fulfilled", "thrown", "idle">>
  /\ pc = "done"
  /\ outcome = Rejected(UnitError(2))
  /\ completed = <<1>>

\* What C26 expects of every state: in the loop with a unit left, the unit
\* can be started at once; suspended on the race, the call waits exactly while
\* every promise raced is pending, and can go on once one has settled.
C26_State ==
  /\ (pc = "loop" /\ idx <= Len(units)) => ENABLED StartUnit
  /\ pc = "race" =>
       /\ awaiting # {}
       /\ awaitRes = Pending <=> \A i \in awaiting : pstate[i] = "pending"
       /\ awaitRes # Pending => ENABLED Resume

\* C26: a unit is started whenever the loop reaches it; the call suspends on
\* the race only right after starting a unit and exactly when the set of
\* outstanding promises has then reached the concurrency; it leaves the race
\* only once a raced promise has settled, whichever it is, and goes on
\* admitting when that one fulfilled.
C26_SlidingWindow ==
  /\ []C26_State
  /\ [][/\ (pc # "race" /\ pc' = "race") =>
             /\ pc = "loop"
             /\ idx' = idx + 1
             /\ hstate'[idx] = "running"
             /\ Cardinality(queue') >= concurrency
        /\ (pc = "loop" /\ pc' = "loop" /\ idx' = idx + 1) =>
             Cardinality(queue') < concurrency
        /\ (pc = "race" /\ pc' # "race") =>
             /\ \E i \in awaiting : pstate[i] # "pending"
             /\ pc' = "loop" <=> awaitRes = Fulfilled
             /\ idx' = idx]_vars

\* C26's case: with concurrency 2 the first unit was started without a wait,
\* the call suspended after the second, the second finished first, and the
\* third unit was admitted while the first still runs.
C26_Witness ==
  /\ concurrency = 2
  /\ Len(units) = 3
  /\ completed = <<2>>
  /\ hstate = <<"running", "fulfilled", "running">>
  /\ pc = "race"

\* C28: a call of batchParallel with a batch size of 0, once settled, has
\* failed with an error and returned no results.
C28_BatchSizeZeroFails ==
  (variant = "batchParallel" /\ batchSize = 0 /\ pc = "done") =>
    outcome[1] = "err"

\* C31: at every point the void counterpart of a call, run on the same units
\* with the same concurrency and the same completions, is at the same place
\* as the call, has started the same units, holds the same queue and awaits
\* a promise in the same state; it fails exactly when the call fails, with the
\* same error, and where the call returns its results it returns nothing.
C31_VoidMatchesCounterpart ==
  /\ voidRun.pc = pc
  /\ voidRun.idx = idx
  /\ voidRun.queue = queue
  /\ voidRun.pstate = pstate
  /\ voidRun.awaitRes = awaitRes
  /\ (outcome[1] = "err") <=> (voidRun.outcome[1] = "err")
  /\ outcome[1] = "err" => voidRun.outcome = outcome
  /\ outcome[1] = "ok" => voidRun.outcome = <<"ok", <<>>>>
  /\ (outcome[1] = "ok" /\ ~IsVoid(variant) /\ units # <<>>) =>
       outcome # voidRun.outcome

\* C31's case: handleParallel has failed with the error of its second unit
\* after its first unit had fulfilled and left the queue, so that the final
\* Promise.all of the void counterpart awaited fewer promises than its own;
\* the counterpart failed with the same error.
C31_Witness ==
  /\ variant = "handleParallel"
  /\ concurrency = 3
  /\ Len(units) = 2
  /\ pc = "done"
  /\ pstate = <<"fulfilled", "rejected">>
  /\ queue = {2}
  /\ outcome = Rejected(UnitError(2))
  /\ voidRun.outcome = Rejected(UnitError(2))
  /\ voidRun.pc = "done"

\* No unit's operation fails and the handler is there.
AllSucceed ==
  /\ ~HandlerMissing(variant, handlerGiven)
  /\ \A i \in DOMAIN hstate : hstate[i] \notin {"thrown", "rejected"}

\* The call has returned after starting every unit.
ReturnedAfterAll ==
  /\ pc = "done"
  /\ outcome[1] = "ok"
  /\ idx = Len(units) + 1
  /\ \A i \in DOMAIN hstate : hstate[i] = "fulfilled"
  /\ Len(completed) = Len(units)

\* C37: for every concurrency, negative and 0 included: the units started are
\* at every moment the first idx - 1 in source order, none twice; the race
\* is awaited on a non-empty set only; and if every started unit completes
\* successfully the call eventually returns, having started every unit.
C37_RunnerTerminates ==
  /\ [](\A i \in DOMAIN hstate : (hstate[i] # "idle") <=> (i < idx))
  /\ [](pc = "race" => (awaiting # {} /\ queue \subseteq awaiting))
  /\ ([]AllSucceed => <>ReturnedAfterAll)

\* C37's case: handleParallel with a negative concurrency has returned the
\* results of three units, completed one after the other.
C37_Witness ==
  /\ variant = "handleParallel"
  /\ concurrency = -1
  /\ Len(units) = 3
  /\ completed = <<1, 2, 3>>
  /\ ReturnedAfterAll

(***************************************************************************)
(* Properties of MemCache, under SpecCache.                                *)
(***************************************************************************)
\* The loads for key k that were started and have not settled.
InFlight(k) ==
  {p \in DOMAIN proms : proms[p].key = k /\ proms[p].state = "pending"}

\* C3 as stated: at any time, for each key, at most one load started by the
\* cache is in flight, across get, delete, clear, sweeps and the passage of
\* time.
C3_AtMostOneInFlight ==
  \A k \in Keys : Cardinality(InFlight(k)) <= 1

\* C3: at any time, for each key, every load in flight whose entry was not
\* deleted, cleared or expired is the one the key's valid entry holds, so at
\* most one such load is in flight per key.
C3_AtMostOneLiveLoad ==
  \A k \in Keys :
    /\ \A p \in InFlight(k) :
         ~proms[p].dropped =>
           /\ k \in DOMAIN kv
           /\ kv[k].value = p
           /\ kv[k].expiresAt > now
    /\ Cardinality({p \in InFlight(k) : ~proms[p].dropped}) <= 1

\* C3's case: a key with two loads in flight, the entry of the first one gone,
\* the second one held by the key's valid entry.
C3_Witness ==
  \E k \in Keys :
    /\ Cardinality(InFlight(k)) = 2
    /\ Cardinality({p \in InFlight(k) : ~proms[p].dropped}) = 1
    /\ k \in DOMAIN kv
    /\ kv[k].expiresAt > now

\* C4: a get, with a loader, for a key without entry invokes the loader once
\* and installs the entry holding the pending load in the same step, before
\* the load settles; a get for a key whose valid entry holds a load in flight
\* invokes no loader and returns that same promise.
C4_SharedInFlightLoad ==
  [][\A k \in Keys, l \in CallLoaders :
       (Get(k, l) /\ EffectiveLoader(l) # "none") =>
         /\ k \notin DOMAIN kv =>
              /\ Len(proms') = Len(proms) + 1
              /\ proms'[Len(proms')].state = "pending"
              /\ k \in DOMAIN kv'
              /\ kv'[k].value = Len(proms')
              /\ returned' = <<"promise", Len(proms'), TRUE>>
         /\ ( /\ k \in DOMAIN kv
              /\ kv[k].expiresAt > now
              /\ proms[kv[k].value].state = "pending" ) =>
              /\ proms' = proms
              /\ returned' = <<"promise", kv[k].value, FALSE>>]_vars

\* C4's case: the only load ever started is in flight and the last get, which
\* invoked no loader, returned its promise.
C4_Witness ==
  /\ Len(proms) = 1
  /\ proms[1].state = "pending"
  /\ returned = <<"promise", 1, FALSE>>

\* C12: a get, with a loader, on a key that has a valid entry invokes no
\* loader, leaves the entry as it is and returns the promise the entry holds.
C12_ValidEntryServed ==
  [][\A k \in Keys, l \in CallLoaders :
       ( /\ Get(k, l)
         /\ EffectiveLoader(l) # "none"
         /\ k \in DOMAIN kv
         /\ kv[k].expiresAt > now ) =>
         /\ proms' = proms
         /\ k \in DOMAIN kv'
         /\ kv'[k] = kv[k]
         /\ returned' = <<"promise", kv[k].value, FALSE>>]_vars

\* C12's case: the last get, which invoked no loader, returned the promise of
\* a load that had fulfilled and whose entry is valid.
C12_Witness ==
  \E k \in DOMAIN kv :
    /\ kv[k].expiresAt > now
    /\ proms[kv[k].value].state = "fulfilled"
    /\ returned = <<"promise", kv[k].value, FALSE>>

\* C13: an entry's expiresAt is the time of its creation plus the ttl and no
\* step changes it while the entry holds the same promise; a get returns the
\* promise of an existing entry only while now < expiresAt; and a get, with a
\* loader, at or after expiresAt invokes the loader and returns the new
\* promise, whether the old entry is still in the map or was swept.
C13_ExpiryFixedAtCreation ==
  [][/\ \A k \in DOMAIN kv' :
          IF k \in DOMAIN kv /\ kv[k].value = kv'[k].value
            THEN kv'[k].expiresAt = kv[k].expiresAt
            ELSE kv'[k].expiresAt = now + ttl
     /\ \A k \in Keys, l \in CallLoaders :
          (Get(k, l) /\ EffectiveLoader(l) # "none") =>
            IF k \in DOMAIN kv /\ now < kv[k].expiresAt
              THEN returned' = <<"promise", kv[k].value, FALSE>>
              ELSE /\ proms' = Append(proms, NewPromise("loader", k, EffectiveLoader(l)))
                   /\ returned' = <<"promise", Len(proms) + 1, TRUE>>
                   /\ kv'[k].value = Len(proms) + 1]_vars

\* C13's case: a key was loaded again by a get that found its expired entry
\* still in the map (a get two ticks earlier had moved the next sweep past
\* the entry's expiry).
C13_Witness ==
  /\ ttl = 2
  /\ now = 3
  /\ expiredDeleteAt = 4
  /\ Len(proms) = 2
  /\ proms[1].key = proms[2].key
  /\ proms[1].dropped
  /\ returned = <<"promise", 2, TRUE>>
  /\ kv[proms[2].key] = [value |-> 2, expiresAt |-> 5]

\* C20: delete(key) removes the entry of the key and no other, leaves the
\* other entries as they are and returns whether the key had an entry; a key
\* without an entry gets one only by a get that invokes the loader; and a get,
\* with a loader, of a key without an entry invokes the loader and returns its
\* promise.
C20_DeleteOneEntry ==
  [][/\ \A k \in Keys :
          Delete(k) =>
            /\ DOMAIN kv' = DOMAIN kv \ {k}
            /\ \A x \in DOMAIN kv' : kv'[x] = kv[x]
            /\ returned' = <<"bool", k \in DOMAIN kv>>
     /\ \A k \in Keys :
          (k \notin DOMAIN kv /\ k \in DOMAIN kv') =>
            /\ proms' = Append(proms, proms'[Len(proms')])
            /\ proms'[Len(proms')].key = k
            /\ kv'[k].value = Len(proms')
            /\ returned' = <<"promise", Len(proms'), TRUE>>
     /\ \A k \in Keys, l \in CallLoaders :
          (Get(k, l) /\ EffectiveLoader(l) # "none" /\ k \notin DOMAIN kv) =>
            /\ proms' = Append(proms, NewPromise("loader", k, EffectiveLoader(l)))
            /\ returned' = <<"promise", Len(proms'), TRUE>>]_vars

\* C20's case: a delete has returned true for a key whose load had fulfilled
\* and whose entry was valid, and the entry of the other key is still there.
C20_Witness ==
  /\ returned = <<"bool", TRUE>>
  /\ \E p \in DOMAIN proms :
       /\ proms[p].dropped
       /\ proms[p].state = "fulfilled"
       /\ proms[p].key \notin DOMAIN kv
  /\ \E k \in DOMAIN kv : kv[k].expiresAt > now

\* C27: a get throws 'Loader is required but not provided' exactly when the
\* key has no valid entry and neither a loader argument nor a default loader is
\* given, and a get of a key with a valid entry returns the promise the entry
\* holds whether or not a loader is given.
C27_ThrowsOnlyWhenLoadNeeded ==
  [][\A k \in Keys, l \in CallLoaders :
       LET valid == k \in DOMAIN kv /\ kv[k].expiresAt > now
       IN Get(k, l) =>
            /\ returned' = <<"throw", LoaderRequired>> <=>
                 (EffectiveLoader(l) = "none" /\ ~valid)
            /\ valid => returned' = <<"promise", kv[k].value, FALSE>>]_vars

\* C32: a call of deleteExpired removes exactly the entries whose expiresAt
\* is not after the current time; every other entry stays as it was, whatever
\* the state of the load it holds, and no load and no watermark is touched.
C32_SweepRemovesExactlyExpired ==
  [][DeleteExpired =>
       /\ DOMAIN kv' = {k \in DOMAIN kv : kv[k].expiresAt > now}
       /\ \A k \in DOMAIN kv' : kv'[k] = kv[k]
       /\ proms' = proms
       /\ expiredDeleteAt' = expiredDeleteAt]_vars

\* C32's case: with the next conditional sweep still ahead, a sweep has
\* removed the expired entry of one key and left the valid entry of the other
\* key, whose load has rejected.
C32_Witness ==
  /\ returned = <<"void">>
  /\ expiredDeleteAt > now
  /\ \E p \in DOMAIN proms :
       /\ proms[p].dropped
       /\ proms[p].key \notin DOMAIN kv
  /\ \E k \in DOMAIN kv :
       /\ kv[k].expiresAt > now
       /\ proms[kv[k].value].state = "rejected"

\* What a step that begins with deleteExpiredIfNeed does to the entries of the
\* keys in K and to the watermark, when a sweep leaves the watermark at next.
ConditionalSweep(K, next) ==
  IF expiredDeleteAt > now
    THEN /\ expiredDeleteAt' = expiredDeleteAt
         /\ \A k \in K \cap DOMAIN kv : k \in DOMAIN kv' /\ kv'[k] = kv[k]
    ELSE /\ expiredDeleteAt' = next
         /\ \A k \in K \cap DOMAIN kv :
              IF kv[k].expiresAt > now
                THEN k \in DOMAIN kv' /\ kv'[k] = kv[k]
                ELSE k \notin DOMAIN kv'

\* C33 as stated: a call of deleteExpiredIfNeed, made directly or as the first
\* thing of a get (which then goes on to the entry of its own key), sweeps
\* only if the watermark expiredDeleteAt is not after the current time and
\* otherwise removes no entry and leaves the watermark; after a sweep the
\* watermark is one ttl later than it was.
C33_WatermarkAdvancesByTTL ==
  [][/\ DeleteExpiredIfNeed => ConditionalSweep(Keys, expiredDeleteAt + ttl)
     /\ \A k \in Keys, l \in CallLoaders :
          Get(k, l) => ConditionalSweep(Keys \ {k}, expiredDeleteAt + ttl)]_vars

\* C33 as the code has it: after a sweep the watermark is one ttl after the
\* current time, however long ago the old watermark was reached.
C33_WatermarkSetToNowPlusTTL ==
  [][/\ DeleteExpiredIfNeed => ConditionalSweep(Keys, now + ttl)
     /\ \A k \in Keys, l \in CallLoaders :
          Get(k, l) => ConditionalSweep(Keys \ {k}, now + ttl)]_vars

\* C33's case: a conditional sweep made after the watermark had been passed
\* has removed an expired entry and set the watermark one ttl after
\* the current time, which is later than one ttl after the old watermark.
C33_Witness ==
  /\ returned = <<"void">>
  /\ ttl = 1
  /\ now = 2
  /\ expiredDeleteAt = 3
  /\ kv = EmptyMap
  /\ \E p \in DOMAIN proms : proms[p].dropped

\* What a cache holds for its callers at time t: the entries valid at t.
LiveEntries(map, t) ==
  [k \in {x \in DOMAIN map : map[x].expiresAt > t} |-> map[k]]

\* C38: the sweeps are invisible to the callers of get. A sweep, whenever it
\* runs, changes no load and leaves what the cache holds for its callers as
\* it was, now and at every later time; and whether a get invokes a loader,
\* which promise it returns and what the cache holds after it depend only on
\* what the cache holds for its callers, not on the expired entries left in
\* the map nor on the watermark.
C38_SweepsInvisible ==
  [][/\ (DeleteExpired \/ DeleteExpiredIfNeed) =>
          /\ proms' = proms
          /\ \A t \in now..(ttl + MaxPastTTL) :
               LiveEntries(kv', t) = LiveEntries(kv, t)
     /\ \A k \in Keys, l \in CallLoaders :
          (Get(k, l) /\ EffectiveLoader(l) # "none") =>
            LET live == LiveEntries(kv, now)
            IN IF k \in DOMAIN live
                 THEN /\ returned' = <<"promise", live[k].value, FALSE>>
                      /\ proms' = proms
                      /\ \A t \in now..(ttl + MaxPastTTL) :
                           LiveEntries(kv', t) = LiveEntries(kv, t)
                 ELSE /\ returned' = <<"promise", Len(proms) + 1, TRUE>>
                      /\ proms' = Append(proms,
                           NewPromise("loader", k, EffectiveLoader(l)))
                      /\ \A t \in now..(ttl + MaxPastTTL) :
                           LiveEntries(kv', t) =
                             LiveEntries(MapSet(kv, k,
                               [value |-> Len(proms) + 1,
                                expiresAt |-> now + ttl]), t)]_vars

\* C38's case: two loads were made; the entry of the first has expired and the
\* last get, of the other key, swept it away and invoked the loader.
C38_Witness ==
  /\ Len(proms) = 2
  /\ proms[1].dropped
  /\ proms[1].key # proms[2].key
  /\ proms[1].key \notin DOMAIN kv
  /\ returned = <<"promise", 2, TRUE>>
  /\ expiredDeleteAt = now + ttl

(***************************************************************************)
(* Properties of MemAggregateCache, under SpecAgg.                         *)
(***************************************************************************)
\* Whether the item cache `map` holds a valid entry for key k at time t.
HasValidEntry(map, k, t) == k \in DOMAIN map /\ map[k].expiresAt > t

\* C5: across get and getMany calls, no key passed to the batch loader has a
\* valid (possibly still pending) entry at the time of the invocation.
C5_ValidKeyNeverReloaded ==
  [][\A j \in DOMAIN loadCalls' \ DOMAIN loadCalls :
       \A i \in DOMAIN loadCalls'[j].keys :
         ~HasValidEntry(kv, loadCalls'[j].keys[i], now)]_vars

\* C5's case: while the load of getMany([1]) is in flight, getMany([1, 2])
\* has shared the future of key 1 and asked the loader for key 2 only.
C5_Witness ==
  /\ Len(calls) = 2
  /\ calls[1].keys = <<1>>
  /\ calls[1].pc = "load"
  /\ calls[2].keys = <<1, 2>>
  /\ calls[2].load # 0
  /\ loadCalls[calls[2].load].keys = <<2>>
  /\ calls[2].map[1] = calls[1].map[1]

\* The distinct keys of `keys` without valid entry in the current state, in
\* order of first occurrence.
DistinctMissing(keys) ==
  LET first == {i \in 1..Len(keys) :
                /\ ~HasValidEntry(kv, keys[i], now)
                /\ \A j \in 1..(i - 1) : keys[j] # keys[i]}
      nth(n) == CHOOSE i \in first : Cardinality({j \in first : j < i}) = n - 1
  IN [n \in 1..Cardinality(first) |-> keys[nth(n)]]

\* C6: getMany(keys) invokes the batch loader exactly once, with the distinct
\* keys without valid entry in order of first occurrence, when there is such a
\* key, and not at all otherwise; no later step invokes the loader for the
\* call.
C6_OneLoadPerGetMany ==
  [][/\ \A keys \in KeyLists :
          GetMany(keys) =>
            IF DistinctMissing(keys) = <<>>
              THEN loadCalls' = loadCalls
              ELSE /\ Len(loadCalls') = Len(loadCalls) + 1
                   /\ loadCalls'[Len(loadCalls')].keys = DistinctMissing(keys)
                   /\ loadCalls'[Len(loadCalls')].call = Len(calls) + 1
     /\ \A j \in DOMAIN loadCalls' \ DOMAIN loadCalls :
          loadCalls'[j].call # 0 =>
            /\ Len(calls') = Len(calls) + 1
            /\ loadCalls'[j].call = Len(calls')]_vars

\* C6's case: getMany([1, 1]) asked the loader for [1], then getMany([2, 1])
\* asked it for [2].
C6_Witness ==
  /\ Len(calls) = 2
  /\ calls[1].keys = <<1, 1>>
  /\ loadCalls[calls[1].load].keys = <<1>>
  /\ calls[2].keys = <<2, 1>>
  /\ calls[2].load # 0
  /\ loadCalls[calls[2].load].keys = <<2>>

\* Every invocation of the batch loader that settled returned one item for
\* each key it was asked for.
LoaderExact ==
  \A j \in DOMAIN loadCalls :
    loadCalls[j].state # "pending" =>
      /\ loadCalls[j].state = "fulfilled"
      /\ Len(loadCalls[j].resp) = Len(loadCalls[j].keys)
      /\ {getKey(v) : v \in Range(loadCalls[j].resp)} = Range(loadCalls[j].keys)

\* C7: when the batch loader returns one item for each key it is asked for,
\* getMany(keys) returns a sequence as long as keys whose i-th element is the
\* item with key keys[i], also where a key is repeated.
C7_ItemPerInputKey ==
  \A c \in DOMAIN calls :
    (calls[c].pc = "done" /\ LoaderExact) =>
      /\ calls[c].outcome[1] = "ok"
      /\ Len(calls[c].outcome[2]) = Len(calls[c].keys)
      /\ \A i \in 1..Len(calls[c].keys) :
           getKey(calls[c].outcome[2][i]) = calls[c].keys[i]

\* C7's case: getMany([2, 1]) returned after the loader answered in the other
\* order, and getMany([1, 1]) returned.
C7_Witness ==
  /\ LoaderExact
  /\ \E c \in DOMAIN calls :
       /\ calls[c].pc = "done"
       /\ calls[c].keys = <<2, 1>>
       /\ calls[c].load # 0
       /\ loadCalls[calls[c].load].resp = <<Item(1), Item(2)>>
  /\ \E c \in DOMAIN calls :
       /\ calls[c].pc = "done"
       /\ calls[c].keys = <<1, 1>>

\* C8: if the batch loader invoked by a getMany call fails, every future the
\* call reserved is rejected with that error and the call fails with it.
C8_LoadFailureRejectsReserved ==
  \A c \in DOMAIN calls :
    ( /\ calls[c].load # 0
      /\ loadCalls[calls[c].load].state = "rejected"
      /\ calls[c].pc = "done" ) =>
      /\ calls[c].outcome = Rejected(LoadError(calls[c].load))
      /\ \A i \in DOMAIN calls[c].keysToLoad :
           LET p == calls[c].map[calls[c].keysToLoad[i]]
           IN /\ proms[p].state = "rejected"
              /\ proms[p].val = Rejected(LoadError(calls[c].load))

\* The positions of the values load j returned whose key was not among the
\* keys passed to it.
Unrequested(j) ==
  {i \in DOMAIN loadCalls[j].resp :
     getKey(loadCalls[j].resp[i]) \notin Range(loadCalls[j].keys)}

\* C9: if a value the batch loader returned to getMany has a key that was not
\* among the keys passed to it, the call fails with 'Wrong loaded key' naming
\* that key.
C9_UnrequestedKeyFails ==
  \A c \in DOMAIN calls :
    ( /\ calls[c].load # 0
      /\ loadCalls[calls[c].load].state = "fulfilled"
      /\ Unrequested(calls[c].load) # {} ) =>
      /\ calls[c].pc = "done"
      /\ calls[c].outcome[1] = "err"
      /\ \E i \in Unrequested(calls[c].load) :
           calls[c].outcome[2] =
             WrongLoadedKey(getKey(loadCalls[calls[c].load].resp[i]))

\* Whether key k has a valid entry that holds a rejected promise.
HasRejectedEntry(k) ==
  HasValidEntry(kv, k, now) /\ proms[kv[k].value].state = "rejected"

\* C14: a get for a key whose valid entry holds a rejected promise, be it the
\* promise of get's own load or the future of a failed batch load, invokes no
\* loader and leaves the entry and its promise as they are; a getMany takes
\* that same promise for the key and does not ask the loader for it; and only
\* a call of get or getMany ever invokes the loader.
C14_RejectedLoadCached ==
  [][/\ \A k \in Keys :
          (AggGet(k) /\ HasRejectedEntry(k)) =>
            /\ loadCalls' = loadCalls
            /\ proms' = proms
            /\ kv'[k] = kv[k]
     /\ \A keys \in KeyLists :
          GetMany(keys) =>
            \A k \in Range(keys) :
              HasRejectedEntry(k) =>
                /\ calls'[Len(calls')].map[k] = kv[k].value
                /\ k \notin Range(calls'[Len(calls')].keysToLoad)
                /\ proms'[kv[k].value] = proms[kv[k].value]
                /\ kv'[k] = kv[k]
     /\ Len(loadCalls') > Len(loadCalls) =>
          \/ \E k \in Keys : AggGet(k)
          \/ \E keys \in KeyLists : GetMany(keys)]_vars

\* C14's case: the batch load of getMany([1, 2]) failed; a later getMany([2])
\* invoked no loader and failed with the same error, and the entry of key 2
\* still holds the rejected future.
C14_Witness ==
  /\ Len(calls) = 2
  /\ Len(loadCalls) = 1
  /\ calls[1].keys = <<1, 2>>
  /\ calls[1].outcome = Rejected(LoadError(1))
  /\ calls[2].keys = <<2>>
  /\ calls[2].pc = "done"
  /\ calls[2].map[2] = calls[1].map[2]
  /\ calls[2].outcome = Rejected(LoadError(1))
  /\ HasRejectedEntry(2)

\* The positions of the values the load of getMany call c returned whose key
\* is not among the keys the call was given.
Foreign(c) ==
  {i \in DOMAIN loadCalls[calls[c].load].resp :
     getKey(loadCalls[calls[c].load].resp[i]) \notin Range(calls[c].keys)}

\* Whether the batch loader answered getMany call c with a value whose key the
\* call was not given.
ForeignKeyLoaded(c) ==
  /\ calls[c].load # 0
  /\ loadCalls[calls[c].load].state = "fulfilled"
  /\ Foreign(c) # {}

\* The promise getMany call c reserved for the i-th key it had to load.
Reserved(c, i) == proms[calls[c].map[calls[c].keysToLoad[i]]]

C30_EntryHoldsOwnKey ==
  \A k \in DOMAIN kv :
    proms[kv[k].value].state = "fulfilled" =>
      getKey(proms[kv[k].value].val[2]) = k

\* C35: once the load of a getMany call has settled, fulfilled with whatever
\* list or rejected, every future the call reserved is settled.
C35_ReservedSettleWithLoad ==
  \A c \in DOMAIN calls :
    (calls[c].load # 0 /\ loadCalls[calls[c].load].state # "pending") =>
      \A i \in DOMAIN calls[c].keysToLoad : Reserved(c, i).state # "pending"

\* C36: the step in which a getMany call resumes from its load settles no
\* promise but futures that this call reserved.
C36_SettlesOwnFuturesOnly ==
  [][\A c \in DOMAIN calls :
       GetManyResume(c) =>
         \A p \in DOMAIN proms :
           proms'[p] # proms[p] =>
             (proms[p].kind = "control" /\ proms[p].src = c)]_vars

\* The promise getMany call c holds in its map for the i-th key it was given.
Held(c, i) == proms[calls[c].map[calls[c].keys[i]]]

\* C39: a getMany call keeps the futures it looked up or reserved when it was
\* called, whatever is cleared, swept or expires afterwards; while it awaits
\* them it is through as soon as they all are fulfilled; and what it returns
\* are their values, in the order of its keys.
C39_ReturnsHeldFutures ==
  /\ [](\A c \in DOMAIN calls :
          /\ DOMAIN calls[c].map = Range(calls[c].keys)
          /\ (calls[c].pc = "all" /\ calls[c].awaitRes = Pending) =>
               \E i \in DOMAIN calls[c].keys : Held(c, i).state = "pending"
          /\ (calls[c].pc = "done" /\ calls[c].outcome[1] = "ok") =>
               /\ Len(calls[c].outcome[2]) = Len(calls[c].keys)
               /\ \A i \in DOMAIN calls[c].keys :
                    /\ Held(c, i).state = "fulfilled"
                    /\ calls[c].outcome[2][i] = Held(c, i).val[2])
  /\ [][\A c \in DOMAIN calls :
          /\ calls'[c].keys = calls[c].keys
          /\ calls'[c].map = calls[c].map
          /\ calls'[c].keysToLoad = calls[c].keysToLoad]_vars

\* C39's case: getMany([1]) reserved a future for key 1; while its load was in
\* flight the cache was cleared and a get installed another entry for key 1,
\* which fulfilled with another value; the call returned the item its own
\* future was resolved with.
C39_Witness ==
  \E c \in DOMAIN calls :
    /\ calls[c].keys = <<1>>
    /\ calls[c].pc = "done"
    /\ calls[c].outcome = Value(<<Item(1)>>)
    /\ Held(c, 1).dropped
    /\ 1 \in DOMAIN kv
    /\ kv[1].value # calls[c].map[1]
    /\ proms[kv[1].value].state = "fulfilled"
    /\ proms[kv[1].value].val # Value(Item(1))

(***************************************************************************)
(* Properties of getManyByComplexKey, under SpecComplex.                   *)
(***************************************************************************)
\* What C15 expects of the calls that have got their key list: each of them
\* called getMany with the list its complex-key entry resolved to, and one
\* that returned, returned the item of every key of that list.
C15_SharedList ==
  \A cc \in DOMAIN complexCalls :
    complexCalls[cc].pc = "many" =>
      LET ks == keyLoads[complexCalls[cc].keyLoad].val
      IN /\ calls[complexCalls[cc].many].keys = ks
         /\ ComplexOutcome(cc)[1] = "ok" =>
              ComplexOutcome(cc)[2] = [i \in 1..Len(ks) |-> Item(ks[i])]

\* C15: a getManyByComplexKey call made while the complex key has a valid
\* entry, pending or settled, does not invoke its keys loader and awaits the
\* promise of the entry; a call made when there is none invokes its loader
\* once; and every call returns the items of the key list its entry resolved
\* to.
C15_ComplexKeySingleFlight ==
  [][/\ \A ck \in ComplexKeys :
          ComplexStart(ck) =>
            IF HasValidEntry(cmkks, ck, now)
              THEN /\ keyLoads' = keyLoads
                   /\ complexCalls'[Len(complexCalls')].keyLoad = cmkks[ck].value
                   /\ ~complexCalls'[Len(complexCalls')].invoked
              ELSE /\ Len(keyLoads') = Len(keyLoads) + 1
                   /\ complexCalls'[Len(complexCalls')].keyLoad = Len(keyLoads')
                   /\ complexCalls'[Len(complexCalls')].invoked
     /\ Len(keyLoads') > Len(keyLoads) => \E ck \in ComplexKeys : ComplexStart(ck)
     /\ C15_SharedList']_vars

\* C15's case: two calls with the same complex key were in flight together,
\* only the first one's keys loader was invoked, and both returned the items
\* of the shared key list [2, 1].
C15_Witness ==
  /\ Len(complexCalls) = 2
  /\ Len(keyLoads) = 1
  /\ complexCalls[1].invoked
  /\ ~complexCalls[2].invoked
  /\ keyLoads[1].state = "fulfilled"
  /\ keyLoads[1].val = <<2, 1>>
  /\ Len(loadCalls) = 1
  /\ ComplexOutcome(1) = Value(<<Item(2), Item(1)>>)
  /\ ComplexOutcome(2) = Value(<<Item(2), Item(1)>>)

\* Whether call cc of getManyByComplexKey has returned its items.
Succeeded(cc) ==
  complexCalls[cc].pc = "many" /\ ComplexOutcome(cc)[1] = "ok"

\* The promises call cc of getManyByComplexKey got for its keys.
ItemPromises(cc) == calls[complexCalls[cc].many].map

\* Whether every key of call cc still has the valid entry holding the promise
\* the call got for it.
EntriesValid(cc) ==
  \A k \in DOMAIN ItemPromises(cc) :
    HasValidEntry(kv, k, now) /\ kv[k].value = ItemPromises(cc)[k]

\* What C16 expects after a call of getManyByComplexKey that returned: every
\* returned item is the value of the promise held by the entry of its own
\* key, an entry that is valid unless it has expired since.
C16_ItemsStored ==
  \A cc \in DOMAIN complexCalls :
    Succeeded(cc) =>
      LET ks == calls[complexCalls[cc].many].keys
      IN \A i \in 1..Len(ks) :
           LET v == ComplexOutcome(cc)[2][i]
               p == ItemPromises(cc)[getKey(v)]
           IN /\ getKey(v) = ks[i]
              /\ proms[p].val = Value(v)
              /\ ~proms[p].dropped =>
                   (HasValidEntry(kv, ks[i], now) /\ kv[ks[i]].value = p)

\* C16: after getManyByComplexKey returned its items, and until their entries
\* expire, the entry of each item's own key holds the item, a get of such a
\* key invokes no batch loader, and a repeated getManyByComplexKey that gets
\* the same key list invokes no batch loader and gets the same promises.
C16_RetrievableWithoutLoad ==
  [][/\ C16_ItemsStored'
     /\ \A cc \in DOMAIN complexCalls :
          (Succeeded(cc) /\ EntriesValid(cc)) =>
            /\ \A k \in DOMAIN ItemPromises(cc) :
                 AggGet(k) => (loadCalls' = loadCalls /\ kv'[k] = kv[k])
            /\ \A dd \in DOMAIN complexCalls :
                 ( /\ ComplexResume(dd)
                   /\ keyLoads[complexCalls[dd].keyLoad].state = "fulfilled"
                   /\ keyLoads[complexCalls[dd].keyLoad].val =
                        keyLoads[complexCalls[cc].keyLoad].val ) =>
                   /\ loadCalls' = loadCalls
                   /\ calls'[Len(calls')].map = ItemPromises(cc)
                   /\ calls'[Len(calls')].awaitRes = Fulfilled]_vars

\* C16's case: getManyByComplexKey returned the items of [1, 2] after one
\* batch load; a second getManyByComplexKey followed, before any expiry, and
\* returned them too without the batch loader being invoked again.
C16_Witness ==
  /\ now = 0
  /\ Len(complexCalls) = 2
  /\ Len(loadCalls) = 1
  /\ loadCalls[1].keys = <<1, 2>>
  /\ Succeeded(1)
  /\ complexCalls[2].pc = "many"
  /\ complexCalls[2].many = 2
  /\ calls[1].pc = "done"
  /\ ComplexOutcome(2) = Value(<<Item(1), Item(2)>>)

\* C22: a getManyByComplexKey call whose keys load was rejected, once resumed,
\* has failed with the error of the keys loader and has called no getMany, so
\* no batch load belongs to it.
C22_KeysLoaderErrorPropagates ==
  \A cc \in DOMAIN complexCalls :
    LET call == complexCalls[cc]
    IN (keyLoads[call.keyLoad].state = "rejected" /\ call.pc # "keys") =>
         /\ call.pc = "done"
         /\ ComplexOutcome(cc) = Rejected(ComplexLoadError(call.keyLoad))
         /\ call.many = 0
         /\ \A j \in DOMAIN loadCalls :
              loadCalls[j].call # 0 =>
                \E other \in DOMAIN complexCalls \ {cc} :
                  complexCalls[other].many = loadCalls[j].call

\* C22's case: two calls shared a keys load that was rejected and both have
\* failed with its error, with no batch load made.
C22_Witness ==
  /\ Len(complexCalls) = 2
  /\ Len(keyLoads) = 1
  /\ keyLoads[1].state = "rejected"
  /\ \A cc \in DOMAIN complexCalls :
       /\ complexCalls[cc].pc = "done"
       /\ ComplexOutcome(cc) = Rejected(ComplexLoadError(1))
  /\ loadCalls = <<>>

(***************************************************************************)
(* Properties of clear and the sweeps of the aggregate cache, under        *)
(* SpecFanOut.                                                             *)
(***************************************************************************)

\* Whether map holds no entry that has expired at time t.
NoneExpired(map, t) == \A k \in DOMAIN map : map[k].expiresAt > t

\* Whether map holds the entries of old that are valid at time t, unchanged.
ValidKept(old, map, t) ==
  \A k \in DOMAIN old :
    old[k].expiresAt > t => (k \in DOMAIN map /\ map[k] = old[k])

\* C21: clear empties the item cache and the complex-key cache; deleteExpired
\* removes the expired entries of both and keeps the valid ones; so does
\* deleteExpiredIfNeed in each cache that is due for a sweep; a key without an
\* entry gets one only by a call that invokes the loader for it; and the get
\* of an item key without an entry invokes the batch loader for it, the
\* getManyByComplexKey of a complex key without an entry its keys loader.
C21_ClearFansOut ==
  [][/\ AggClear => (kv' = EmptyMap /\ cmkks' = EmptyMap)
     /\ AggDeleteExpired =>
          /\ NoneExpired(kv', now) /\ ValidKept(kv, kv', now)
          /\ NoneExpired(cmkks', now) /\ ValidKept(cmkks, cmkks', now)
     /\ AggDeleteExpiredIfNeed =>
          /\ expiredDeleteAt <= now => NoneExpired(kv', now)
          /\ cmkksExpiredDeleteAt <= now => NoneExpired(cmkks', now)
          /\ ValidKept(kv, kv', now) /\ ValidKept(cmkks, cmkks', now)
     /\ \A k \in Keys :
          (k \notin DOMAIN kv /\ k \in DOMAIN kv') =>
            /\ Len(loadCalls') = Len(loadCalls) + 1
            /\ k \in Range(loadCalls'[Len(loadCalls')].keys)
     /\ \A ck \in ComplexKeys :
          (ck \notin DOMAIN cmkks /\ ck \in DOMAIN cmkks') =>
            /\ Len(keyLoads') = Len(keyLoads) + 1
            /\ keyLoads'[Len(keyLoads')].complexKey = ck
     /\ \A k \in Keys :
          (AggGet(k) /\ k \notin DOMAIN kv) =>
            /\ Len(loadCalls') = Len(loadCalls) + 1
            /\ loadCalls'[Len(loadCalls')].keys = <<k>>
     /\ \A ck \in ComplexKeys :
          (ComplexStart(ck) /\ ck \notin DOMAIN cmkks) =>
            /\ Len(keyLoads') = Len(keyLoads) + 1
            /\ complexCalls'[Len(complexCalls')].invoked]_vars

\* C21's case: before any entry could expire, a get of key 1 and a
\* getManyByComplexKey have loaded, the cache was cleared, and the next get of
\* key 1 and the next getManyByComplexKey have loaded again.
C21_Witness ==
  /\ now = 0
  /\ Len(keyLoads) = 2
  /\ Len(loadCalls) = 2
  /\ loadCalls[1].keys = <<1>> /\ loadCalls[1].call = 0
  /\ loadCalls[2].keys = <<1>> /\ loadCalls[2].call = 0
  /\ \E p \in DOMAIN proms : proms[p].dropped

(***************************************************************************)
(* Properties of mgetByKeyValues, under SpecValues.                        *)
(***************************************************************************)

\* Whether the entry of key k is valid at the time and holds a value that
\* mgetByKeyValues stored.
HoldsStoredValue(k) ==
  /\ HasValidEntry(kv, k, now)
  /\ proms[kv[k].value].kind = "value"

\* C23: mgetByKeyValues invokes no batch loader and, when its loader answers,
\* leaves for each value an entry under its derived key that holds the value
\* and expires a ttl later; a stored value never changes; while such an entry
\* is valid a get of its key invokes no batch loader and leaves the entry, and
\* a getMany of such keys invokes none and returns their values.
C23_ValuesStoredDirectly ==
  [][/\ \A cc \in DOMAIN complexCalls :
          ValuesResume(cc) =>
            /\ loadCalls' = loadCalls
            /\ complexCalls'[cc].outcome[1] = "ok" =>
                 LET vs == complexCalls'[cc].outcome[2]
                 IN \A i \in 1..Len(vs) :
                      LET k == getKey(vs[i])
                      IN /\ k \in DOMAIN kv'
                         /\ kv'[k].expiresAt = now + ttl
                         /\ proms'[kv'[k].value].state = "fulfilled"
                         /\ proms'[kv'[k].value].val = Value(vs[i])
     /\ \A p \in DOMAIN proms :
          proms[p].kind = "value" =>
            /\ proms'[p].state = "fulfilled"
            /\ proms'[p].val = Value(Item(proms[p].key))
     /\ \A k \in Keys :
          (AggGet(k) /\ HoldsStoredValue(k)) =>
            (loadCalls' = loadCalls /\ kv'[k] = kv[k])
     /\ \A keys \in ValuesKeyLists :
          (GetMany(keys) /\ \A i \in 1..Len(keys) : HoldsStoredValue(keys[i])) =>
            /\ loadCalls' = loadCalls
            /\ \A i \in 1..Len(keys) : kv'[keys[i]] = kv[keys[i]]
            /\ calls'[Len(calls')].awaitRes = Fulfilled
            /\ ReturnValues(keys, calls'[Len(calls')].map, proms') =
                 [i \in 1..Len(keys) |-> Item(keys[i])]]_vars

\* C23's case: mgetByKeyValues stored the values of keys 1 and 2, their
\* entries are valid, and a getMany of both keys has returned them; the batch
\* loader was never invoked.
C23_Witness ==
  /\ loadCalls = <<>>
  /\ \E cc \in DOMAIN complexCalls :
       complexCalls[cc].outcome = Value(<<Item(1), Item(2)>>)
  /\ \E c \in DOMAIN calls :
       /\ calls[c].pc = "done"
       /\ calls[c].outcome = Value(<<Item(1), Item(2)>>)
  /\ HoldsStoredValue(1)
  /\ HoldsStoredValue(2)

(***************************************************************************)
(* Properties of ControlPromise, under SpecControl.                        *)
(***************************************************************************)
\* What C17 expects once resolve or reject has been called: the flags and the
\* promise are as the first call left them (a promise resolved with a
\* thenable follows the thenable).
C17_AsFirstCall ==
  cpCalls # <<>> =>
    LET first == cpCalls[1]
    IN IF first[1] = "reject"
         THEN cpRejected /\ ~cpResolved /\ cpPromise = Rejected(first[2][2])
       ELSE IF first[2][1] = "value"
         THEN cpResolved /\ ~cpRejected /\ cpPromise = Value(first[2][2])
       ELSE /\ cpResolved
            /\ ~cpRejected
            /\ \/ cpPromise = Locked
               \/ cpThenable = "fulfilled" /\ cpPromise = Value(ThenableValue)
               \/ cpThenable = "rejected" /\ cpPromise = Rejected(ThenableValue)

\* C17: the first call of resolve or reject determines the flags and what
\* awaiters observe; a later call of either changes neither.
C17_FirstCallWins ==
  [][/\ \A arg \in ResolveArgs :
          (ControlResolve(arg) /\ cpCalls # <<>>) =>
            UNCHANGED <<cpResolved, cpRejected, cpPromise>>
     /\ \A e \in RejectArgs :
          (ControlReject(e) /\ cpCalls # <<>>) =>
            UNCHANGED <<cpResolved, cpRejected, cpPromise>>
     /\ C17_AsFirstCall']_vars

\* C17's case: resolve(1), then reject(2), then resolve(thenable): the promise
\* is fulfilled with 1.
C17_Witness ==
  /\ cpCalls = << <<"resolve", <<"value", 1>>>>, <<"reject", <<"error", 2>>>>,
                 <<"resolve", <<"thenable", 0>>>> >>
  /\ cpResolved
  /\ ~cpRejected
  /\ cpPromise = Value(1)

\* The number of the getters pending, fulfilled and rejected that return true.
FlagsTrue ==
  (IF pending THEN 1 ELSE 0) + (IF cpResolved THEN 1 ELSE 0)
    + (IF cpRejected THEN 1 ELSE 0)

\* C34: a ControlPromise starts pending; in every state exactly one of
\* pending, fulfilled and rejected is true; and once fulfilled or rejected is
\* true no later step changes any of the three.
C34_OneFlagForEver ==
  /\ pending
  /\ [](FlagsTrue = 1)
  /\ [][(cpResolved \/ cpRejected) =>
          /\ cpResolved' = cpResolved
          /\ cpRejected' = cpRejected
          /\ pending' = pending]_vars

\* C34's case: reject was called first; resolve and reject were called after
\* it, and rejected is still the one flag that is true.
C34_Witness ==
  /\ Len(cpCalls) = 3
  /\ cpCalls[1][1] = "reject"
  /\ cpCalls[2][1] = "resolve"
  /\ cpCalls[3][1] = "reject"
  /\ cpRejected
  /\ ~cpResolved
  /\ ~pending

\* C40: whenever fulfilled is true the promise is fulfilled or is still to
\* settle and does not reject, and whenever rejected is true the promise is
\* rejected, whatever resolve was given.
C40_FlagsAgreeWithOutcome ==
  /\ cpResolved => cpPromise[1] # "err"
  /\ cpRejected => cpPromise[1] = "err"

(***************************************************************************)
(* Properties of the batching, under SpecBatching.                         *)
(***************************************************************************)

\* Whether bs splits its into consecutive batches of size B with a last one of
\* 1 to B items.
C19_Split(bs, its, B) ==
  /\ Flat(bs) = its
  /\ \A i \in 1..Len(bs) :
       /\ Len(bs[i]) >= 1
       /\ Len(bs[i]) <= B
       /\ i < Len(bs) => Len(bs[i]) = B
  /\ its = <<>> => bs = <<>>

\* C19: for a batch size of at least 1, the batches batchGenerator has yielded
\* when it ends, and the batches batchParallel formed, are consecutive runs of
\* the items that concatenate to the input, all of the batch size but a last one
\* of 1 up to that size, none empty.
C19_BatchesSplitInput ==
  batchSize >= 1 =>
    /\ generatorPc = "done" => C19_Split(yielded, items, batchSize)
    /\ pc # "entry" => C19_Split(units, items, batchSize)

\* C19's case: three items in batches of two, by the generator and by
\* batchParallel: a full batch and a short last one.
C19_Witness ==
  /\ batchSize = 2
  /\ Len(items) = 3
  /\ generatorPc = "done"
  /\ yielded = <<(<<1, 2>>), (<<3>>)>>
  /\ pc # "entry"
  /\ units = yielded

====
